---- MODULE Spec2Model ----
(***************************************************************************)
(* Model of the outpainting engine of campaign_generator/ai_service.py     *)
(* (class CampaignGenerator).                                              *)
(*                                                                         *)
(* Images.  A PIL image is a record [mode, w, h, axis, line].  w and h are *)
(* the image's size.  line is one scanline of pixels taken along `axis`    *)
(* ("x": the row y = 0, "y": the column x = 0): the landscape pipeline     *)
(* works on rows, the portrait pipeline on columns.  Every crop and paste  *)
(* of the engine spans the other axis from coordinate 0, so the scanline   *)
(* at 0 is read and written by each of them.  Lengths are the program's    *)
(* own (1024, 384, 1792, ...), not scaled.                                 *)
(*                                                                         *)
(* Pixels.  An RGBA pixel is <<r, g, b, a>>, an RGB pixel <<r, g, b>>,     *)
(* channels 0..255.                                                        *)
(***************************************************************************)
EXTENDS Integers, Sequences, FiniteSets, TLC

\* ------------------------------------------------------------------------
\* Bounds of the model (not program constants)
\* ------------------------------------------------------------------------

\* number of distinct solid-colour base images offered to the pipelines
NumSolid == 2

\* longest base, longest strip and largest overlap_px given to _blend_strip
MaxBase == 3

MaxStrip == 3

MaxOverlap == 2

\* ------------------------------------------------------------------------
\* Program constants
\* ------------------------------------------------------------------------

\* side of the square tile the provider works on
TILE == 1024

\* pixels revealed per provider call (step_px argument of _extend_direction)
STEP == 384

\* long side of the landscape / portrait canvas
TARGET_LONG == 1792

\* offset of the original image in the final canvas
CENTRE_AT == 384

\* offset of the trailing strip in the final canvas
TRAILING_AT == 1408

\* radius of the Gaussian blur in the fallback extender
BLUR_RADIUS == 2

\* ------------------------------------------------------------------------
\* Pixels and images
\* ------------------------------------------------------------------------

Transparent == <<0, 0, 0, 0>>

Opaque == <<255, 255, 255, 255>>

White == <<255, 255, 255>>

\* Image.convert on one pixel: RGBA -> RGB drops alpha, RGB -> RGBA adds 255
ConvertPixel(p, mode) ==
    IF mode = "RGB"
    THEN <<p[1], p[2], p[3]>>
    ELSE IF Len(p) = 4 THEN p ELSE <<p[1], p[2], p[3], 255>>

NoImage == [mode |-> "none", w |-> 0, h |-> 0, axis |-> "x", line |-> <<>>]

AxisLen(axis, w, h) == IF axis = "x" THEN w ELSE h

\* Image.new(mode, (w, h), fill)
NewImage(mode, w, h, axis, fill) ==
    [mode |-> mode, w |-> w, h |-> h, axis |-> axis,
     line |-> [i \in 1..AxisLen(axis, w, h) |-> fill]]

\* image.convert(mode)
Convert(img, mode) ==
    [img EXCEPT !.mode = mode,
                !.line = [i \in 1..Len(img.line) |-> ConvertPixel(img.line[i], mode)]]

\* image.crop((left, upper, right, lower)): pixels outside the source are
\* zero-filled.  The box starts at 0 on the axis across the scanline.
Crop(img, left, upper, right, lower) ==
    LET a == IF img.axis = "x" THEN left ELSE upper
        n == IF img.axis = "x" THEN right - left ELSE lower - upper
        zero == IF img.mode = "RGB" THEN <<0, 0, 0>> ELSE Transparent
    IN  [mode |-> img.mode, w |-> right - left, h |-> lower - upper,
         axis |-> img.axis,
         line |-> [i \in 1..n |-> IF (a + i) \in 1..Len(img.line)
                                  THEN img.line[a + i] ELSE zero]]

\* dst.paste(src, (x, y)) without mask: src is converted to dst's mode and
\* copied, clipped to dst.
Paste(dst, src, x, y) ==
    LET off  == IF dst.axis = "x" THEN x ELSE y
        coff == IF dst.axis = "x" THEN y ELSE x
        csz  == IF dst.axis = "x" THEN src.h ELSE src.w
    IN  [dst EXCEPT !.line =
            [i \in 1..Len(dst.line) |->
                IF coff <= 0 /\ 0 < coff + csz /\ (i - off) \in 1..Len(src.line)
                THEN ConvertPixel(src.line[i - off], dst.mode)
                ELSE dst.line[i]]]

Clamp(i, lo, hi) == IF i < lo THEN lo ELSE IF i > hi THEN hi ELSE i

\* sum of channel c of line over positions from..to, clamped to the line
RECURSIVE SumChannel(_, _, _, _)
SumChannel(line, c, from, to) ==
    IF from > to THEN 0
    ELSE line[Clamp(from, 1, Len(line))][c] + SumChannel(line, c, from + 1, to)

\* image.filter(ImageFilter.GaussianBlur(radius=2)): every channel of a
\* pixel becomes a weighted mean of the pixels within the radius, the edge
\* pixel repeated beyond the border (one box pass of PIL's box-blur
\* approximation).
GaussianBlur(img) ==
    LET n == Len(img.line)
        ch == IF img.mode = "RGB" THEN 3 ELSE 4
        Mean(i, c) ==
            SumChannel(img.line, c, i - BLUR_RADIUS, i + BLUR_RADIUS) \div (2 * BLUR_RADIUS + 1)
    IN  [img EXCEPT !.line = [i \in 1..n |-> [c \in 1..ch |-> Mean(i, c)]]]

\* ------------------------------------------------------------------------
\* Alpha ramp and seam blending (_alpha_ramp, _blend_strip)
\* ------------------------------------------------------------------------

\* the macro DIV255 of PIL's paste: a / 255 rounded, in 8-bit arithmetic
DIV255(a) == (((a + 128) \div 256) + (a + 128)) \div 256

\* one channel of dst.paste(src, box, mask): BLEND(mask, dst, src)
BlendChannel(m, out, in) == DIV255(out * (255 - m) + in * m)

\* Image.resize, the source coordinate (0-based) sampled for destination
\* coordinate j when n_src samples are resized to n_dst (centre sampling)
ResizeSource(j, n_src, n_dst) == ((2 * j + 1) * n_src) \div (2 * n_dst)

\* Image.linear_gradient("L"): 256x256, black at the top row to white at
\* the bottom row; the value of pixel (x, y) is y
linear_gradient(x, y) == y

GRADIENT_SIZE == 256

\* _alpha_ramp(width, height, horizontal): the value of pixel (x, y).
\* horizontal: row = linear_gradient.resize((width, 1)) stretched to
\* (width, height); otherwise col = linear_gradient.resize((1, height))
\* stretched to (width, height).
alpha_ramp_pixel(width, height, horizontal, x, y) ==
    IF horizontal
    THEN linear_gradient(ResizeSource(ResizeSource(x, width, width), GRADIENT_SIZE, width),
                         ResizeSource(ResizeSource(y, 1, height), GRADIENT_SIZE, 1))
    ELSE linear_gradient(ResizeSource(ResizeSource(x, 1, width), GRADIENT_SIZE, 1),
                         ResizeSource(ResizeSource(y, height, height), GRADIENT_SIZE, height))

\* _alpha_ramp(width, height, horizontal).  The scanline kept is the one
\* along the axis the ramp is asked to vary on.
alpha_ramp(width, height, horizontal) ==
    IF horizontal
    THEN [mode |-> "L", w |-> width, h |-> height, axis |-> "x",
          line |-> [i \in 1..width |->
                      << alpha_ramp_pixel(width, height, horizontal, i - 1, 0) >>]]
    ELSE [mode |-> "L", w |-> width, h |-> height, axis |-> "y",
          line |-> [i \in 1..height |->
                      << alpha_ramp_pixel(width, height, horizontal, 0, i - 1) >>]]

\* image.transpose(FLIP_LEFT_RIGHT) on an "x" scanline, FLIP_TOP_BOTTOM on
\* a "y" scanline
Flip(img) ==
    [img EXCEPT !.line = [i \in 1..Len(img.line) |-> img.line[Len(img.line) + 1 - i]]]

\* ImageChops.invert
Invert(img) ==
    [img EXCEPT !.line = [i \in 1..Len(img.line) |->
                            [c \in 1..Len(img.line[i]) |-> 255 - img.line[i][c]]]]

MaskFits_width_only(src, mask) == src.w = mask.w

\* dst.paste(src, (0, 0), mask) requires src and mask of one size
MaskFits(src, mask) == src.w = mask.w /\ src.h = mask.h

\* dst.paste(src, (0, 0), mask) with an "L" mask: every channel blended
PasteMask(dst, src, mask) ==
    [dst EXCEPT !.line =
        [i \in 1..Len(dst.line) |->
            IF i \in 1..Len(src.line)
            THEN [c \in 1..Len(dst.line[i]) |->
                     BlendChannel(mask.line[i][1], dst.line[i][c], src.line[i][c])]
            ELSE dst.line[i]]]

Max(a, b) == IF a > b THEN a ELSE b

Min(a, b) == IF a < b THEN a ELSE b

BlendRaised(error) ==
    [status |-> "raised", error |-> error, image |-> NoImage,
     overlap_old |-> NoImage, overlap_new |-> NoImage, ramp |-> NoImage, tmp |-> NoImage]

\* the overlap band of _blend_strip: the two masked pastes onto tmp
blend_band(overlap_old, overlap_new, ramp, w, h, axis) ==
    LET overlap_new_mask == ramp
        overlap_old_mask == Invert(ramp)
        tmp == NewImage("RGBA", w, h, axis, Transparent)
    IN  PasteMask(PasteMask(tmp, overlap_old, overlap_old_mask),
                  overlap_new, overlap_new_mask)

expanded_length_whole_strip(b, s, overlap_px) == b + s

\* the extension-axis size of the expanded canvas: bw + (sw - overlap_px),
\* bh + (sh - overlap_px)
expanded_length(b, s, overlap_px) == b + (s - overlap_px)

\* _blend_strip(base, new_strip, overlap_px, direction)
blend_strip(base0, new_strip0, overlap_px, direction) ==
    LET base == IF base0.mode # "RGBA" THEN Convert(base0, "RGBA") ELSE base0
        new_strip == IF new_strip0.mode # "RGBA" THEN Convert(new_strip0, "RGBA")
                     ELSE new_strip0
        bw == base.w
        bh == base.h
        sw == new_strip.w
        sh == new_strip.h
        axis == base.axis
        out == base
        Done(image, overlap_old, overlap_new, ramp, tmp) ==
            [status |-> "returned", error |-> "none", image |-> image,
             overlap_old |-> overlap_old, overlap_new |-> overlap_new,
             ramp |-> ramp, tmp |-> tmp]
        right ==
            LET x_overlap_base == Max(0, bw - overlap_px)
                overlap_new == Crop(new_strip, 0, 0, overlap_px, sh)
                overlap_old == Crop(out, x_overlap_base, 0, bw, bh)
                ramp == alpha_ramp(overlap_px, bh, TRUE)
                tmp == blend_band(overlap_old, overlap_new, ramp, overlap_px, bh, axis)
                out1 == Paste(out, tmp, x_overlap_base, 0)
                remainder == Crop(new_strip, overlap_px, 0, sw, sh)
                out2 == Paste(Paste(NewImage("RGBA", expanded_length(bw, sw, overlap_px), bh, axis,
                                             Transparent),
                                    Crop(base, 0, 0, bw, bh), 0, 0),
                              remainder, bw, 0)
            IN  IF ~MaskFits(overlap_old, Invert(ramp)) \/ ~MaskFits(overlap_new, ramp)
                THEN BlendRaised("ValueError")
                ELSE Done(IF sw > overlap_px THEN out2 ELSE out1,
                          overlap_old, overlap_new, ramp, tmp)
        left ==
            LET overlap_new == Crop(new_strip, sw - overlap_px, 0, sw, sh)
                overlap_old == Crop(out, 0, 0, overlap_px, bh)
                ramp == Flip(alpha_ramp(overlap_px, bh, TRUE))
                tmp == blend_band(overlap_old, overlap_new, ramp, overlap_px, bh, axis)
                out1 == Paste(out, tmp, 0, 0)
                remainder == Crop(new_strip, 0, 0, sw - overlap_px, sh)
                expanded == Paste(Paste(NewImage("RGBA", expanded_length(bw, sw, overlap_px), bh, axis,
                                                 Transparent),
                                        remainder, 0, 0),
                                  out1, sw - overlap_px, 0)
            IN  IF ~MaskFits(overlap_old, Invert(ramp)) \/ ~MaskFits(overlap_new, ramp)
                THEN BlendRaised("ValueError")
                ELSE Done(IF sw > overlap_px THEN expanded ELSE out1,
                          overlap_old, overlap_new, ramp, tmp)
        down ==
            LET y_overlap_base == Max(0, bh - overlap_px)
                overlap_new == Crop(new_strip, 0, 0, sw, overlap_px)
                overlap_old == Crop(out, 0, y_overlap_base, bw, bh)
                ramp == alpha_ramp(sw, overlap_px, FALSE)
                tmp == blend_band(overlap_old, overlap_new, ramp, bw, overlap_px, axis)
                out1 == Paste(out, tmp, 0, y_overlap_base)
                remainder == Crop(new_strip, 0, overlap_px, sw, sh)
                out2 == Paste(Paste(NewImage("RGBA", bw, expanded_length(bh, sh, overlap_px), axis,
                                             Transparent),
                                    Crop(base, 0, 0, bw, bh), 0, 0),
                              remainder, 0, bh)
            IN  IF ~MaskFits(overlap_old, Invert(ramp)) \/ ~MaskFits(overlap_new, ramp)
                THEN BlendRaised("ValueError")
                ELSE Done(IF sh > overlap_px THEN out2 ELSE out1,
                          overlap_old, overlap_new, ramp, tmp)
        up ==
            LET overlap_new == Crop(new_strip, 0, sh - overlap_px, sw, sh)
                overlap_old == Crop(out, 0, 0, bw, overlap_px)
                ramp == Flip(alpha_ramp(sw, overlap_px, FALSE))
                tmp == blend_band(overlap_old, overlap_new, ramp, bw, overlap_px, axis)
                out1 == Paste(out, tmp, 0, 0)
                remainder == Crop(new_strip, 0, 0, sw, sh - overlap_px)
                expanded == Paste(Paste(NewImage("RGBA", bw, expanded_length(bh, sh, overlap_px), axis,
                                                 Transparent),
                                        remainder, 0, 0),
                                  out1, 0, sh - overlap_px)
            IN  IF ~MaskFits(overlap_old, Invert(ramp)) \/ ~MaskFits(overlap_new, ramp)
                THEN BlendRaised("ValueError")
                ELSE Done(IF sh > overlap_px THEN expanded ELSE out1,
                          overlap_old, overlap_new, ramp, tmp)
    IN  IF ~(bh = sh \/ bw = sw) THEN BlendRaised("AssertionError")
        ELSE IF direction \in {"right", "left"}
             THEN (IF direction = "right" THEN right ELSE left)
             ELSE (IF direction = "down" THEN down ELSE up)

\* ------------------------------------------------------------------------
\* Fallback extender (blur-and-tile)
\* ------------------------------------------------------------------------

\* variant: the strip pasted once, at the start of the margin
PasteLoop_once(canvas, extension, from, to) ==
    IF canvas.axis = "x" THEN Paste(canvas, extension, from, 0)
    ELSE Paste(canvas, extension, 0, from)

\* for x in range(from, to): canvas.paste(extension, (x, 0)) -- or (0, y).
\* The pastes run in increasing x and a later paste overwrites an earlier
\* one, so a pixel ends with the content of the last paste that covers it.
\* Paste number x (from <= x < to) covers the pixels x+1 .. x+n of the
\* scanline (1-based), n the extension's length.
PasteLoop(canvas, extension, from, to) ==
    LET n == Len(extension.line)
        first(i) == IF from > i - n THEN from ELSE i - n
        last(i)  == IF to - 1 < i - 1 THEN to - 1 ELSE i - 1
    IN  [canvas EXCEPT !.line =
            [i \in 1..Len(canvas.line) |->
                IF first(i) > last(i) THEN canvas.line[i]
                ELSE ConvertPixel(extension.line[i - last(i)], canvas.mode)]]

\* variant: the canvas width computed from the 16:9 ratio of the input
extend_image_horizontally_fallback_ratio(square_image) ==
    LET original_size == square_image.w
        target_width == (original_size * 16) \div 9
        target_height == original_size
        blank == NewImage("RGB", target_width, target_height, "x", White)
        x_offset == (target_width - original_size) \div 2
        centred == Paste(blank, square_image, x_offset, 0)
        left_extension ==
            GaussianBlur(Crop(square_image, 0, 0, original_size \div 4, original_size))
        right_extension ==
            GaussianBlur(Crop(square_image, (3 * original_size) \div 4, 0,
                              original_size, original_size))
        left_filled == PasteLoop(centred, left_extension, 0, x_offset)
    IN  PasteLoop(left_filled, right_extension, x_offset + original_size, target_width)

\* _extend_image_horizontally_fallback(square_image_data, "16:9"): the image
\* that is then saved as JPEG.
extend_image_horizontally_fallback(square_image) ==
    LET original_size == square_image.w
        target_width == TARGET_LONG
        target_height == TILE
        blank == NewImage("RGB", target_width, target_height, "x", White)
        x_offset == (target_width - original_size) \div 2
        centred == Paste(blank, square_image, x_offset, 0)
        left_extension ==
            GaussianBlur(Crop(square_image, 0, 0, original_size \div 4, original_size))
        right_extension ==
            GaussianBlur(Crop(square_image, (3 * original_size) \div 4, 0,
                              original_size, original_size))
        left_filled == PasteLoop(centred, left_extension, 0, x_offset)
    IN  PasteLoop(left_filled, right_extension, x_offset + original_size, target_width)

\* _extend_image_vertically_fallback(square_image_data, "9:16")
extend_image_vertically_fallback(square_image) ==
    LET original_size == square_image.w
        target_width == TILE
        target_height == TARGET_LONG
        blank == NewImage("RGB", target_width, target_height, "y", White)
        y_offset == (target_height - original_size) \div 2
        centred == Paste(blank, square_image, 0, y_offset)
        top_extension ==
            GaussianBlur(Crop(square_image, 0, 0, original_size, original_size \div 4))
        bottom_extension ==
            GaussianBlur(Crop(square_image, 0, (3 * original_size) \div 4,
                              original_size, original_size))
        top_filled == PasteLoop(centred, top_extension, 0, y_offset)
    IN  PasteLoop(top_filled, bottom_extension, y_offset + original_size, target_height)

\* ------------------------------------------------------------------------
\* Single-direction extension used by the pipelines (_extend_direction)
\* ------------------------------------------------------------------------

\* variant: the image slid towards the extension direction (sign slip)
extend_direction_canvas_slid(original_image, direction, step_px) ==
    LET axis == original_image.axis
        mask == NewImage("RGBA", TILE, TILE, axis, Opaque)
        canvas == NewImage("RGBA", TILE, TILE, axis, Transparent)
        canvas_mask == NewImage("RGBA", TILE, TILE, axis, Transparent)
        x == IF direction = "right" THEN step_px
             ELSE IF direction = "left" THEN -step_px ELSE 0
        y == IF direction = "down" THEN step_px
             ELSE IF direction = "up" THEN -step_px ELSE 0
    IN  [canvas |-> Paste(canvas, original_image, x, y),
         mask   |-> Paste(canvas_mask, mask, x, y)]

\* _extend_direction, steps 1-2: the canvas and mask handed to
\* _call_images_edit.  The image and an all-opaque mask are slid by step_px
\* against the extension direction, leaving a transparent gap.
extend_direction_canvas(original_image, direction, step_px) ==
    LET axis == original_image.axis
        mask == NewImage("RGBA", TILE, TILE, axis, Opaque)
        canvas == NewImage("RGBA", TILE, TILE, axis, Transparent)
        canvas_mask == NewImage("RGBA", TILE, TILE, axis, Transparent)
        x == IF direction = "right" THEN -step_px
             ELSE IF direction = "left" THEN step_px ELSE 0
        y == IF direction = "down" THEN -step_px
             ELSE IF direction = "up" THEN step_px ELSE 0
    IN  IF direction \in {"right", "left", "down", "up"}
        THEN [canvas |-> Paste(canvas, original_image, x, y),
              mask   |-> Paste(canvas_mask, mask, x, y)]
        ELSE [canvas |-> canvas, mask |-> canvas_mask]

\* _extend_direction, step 4: the strip cropped from the provider's tile
extend_direction_strip(tile, direction, step_px) ==
    IF direction = "right" THEN Crop(tile, TILE - step_px, 0, TILE, TILE)
    ELSE IF direction = "left" THEN Crop(tile, 0, 0, step_px, TILE)
    ELSE IF direction = "down" THEN Crop(tile, 0, TILE - step_px, TILE, TILE)
    ELSE Crop(tile, 0, 0, TILE, step_px)

\* ------------------------------------------------------------------------
\* Context-and-mask builder and blended extension (_build_context_and_mask,
\* _extend_once, _call_images_edit)
\* ------------------------------------------------------------------------

\* image.resize((w, h)) on the scanline kept
Resize(img, w, h) ==
    LET n == AxisLen(img.axis, w, h)
    IN  [img EXCEPT !.w = w, !.h = h,
                    !.line = [j \in 1..n |->
                                img.line[ResizeSource(j - 1, Len(img.line), n) + 1]]]

ContextRaised(message) ==
    [status |-> "raised", error |-> "ValueError", message |-> message,
     canvas |-> NoImage, mask |-> NoImage]

\* variant: the direction is looked at before the size of the base
build_context_and_mask_direction_first(base_1024, direction, step_px) ==
    IF direction \notin {"right", "left", "down", "up"}
    THEN ContextRaised("Invalid direction")
    ELSE IF <<base_1024.w, base_1024.h>> # <<TILE, TILE>>
    THEN ContextRaised("Context builder expects a 1024x1024 image.")
    ELSE [status |-> "returned", error |-> "none", message |-> "none",
          canvas |-> NewImage("RGBA", TILE, TILE, base_1024.axis, Transparent),
          mask |-> NewImage("RGBA", TILE, TILE, base_1024.axis, Transparent)]

\* variant: the whole tile marked as kept
build_context_and_mask_all_kept(base_1024, direction, step_px) ==
    IF <<base_1024.w, base_1024.h>> # <<TILE, TILE>>
    THEN ContextRaised("Context builder expects a 1024x1024 image.")
    ELSE IF direction \notin {"right", "left", "down", "up"}
    THEN ContextRaised("Invalid direction")
    ELSE [status |-> "returned", error |-> "none", message |-> "none",
          canvas |-> Paste(NewImage("RGBA", TILE, TILE, base_1024.axis, Transparent),
                           base_1024, 0, 0),
          mask |-> NewImage("RGBA", TILE, TILE, base_1024.axis, Opaque)]

\* variant: canvas and mask sized to the kept block
build_context_and_mask_kept_size(base_1024, direction, step_px) ==
    IF <<base_1024.w, base_1024.h>> # <<TILE, TILE>>
    THEN ContextRaised("Context builder expects a 1024x1024 image.")
    ELSE IF direction \notin {"right", "left", "down", "up"}
    THEN ContextRaised("Invalid direction")
    ELSE LET w == IF direction \in {"right", "left"} THEN TILE - step_px ELSE TILE
             h == IF direction \in {"right", "left"} THEN TILE ELSE TILE - step_px
         IN  [status |-> "returned", error |-> "none", message |-> "none",
              canvas |-> Paste(NewImage("RGBA", w, h, base_1024.axis, Transparent),
                               base_1024, 0, 0),
              mask |-> NewImage("RGBA", w, h, base_1024.axis, Opaque)]

\* _build_context_and_mask(base_1024, direction, step_px)
build_context_and_mask(base_1024, direction, step_px) ==
    LET axis == base_1024.axis
        ctx_keep == TILE - step_px
        canvas == NewImage("RGBA", TILE, TILE, axis, Transparent)
        mask == NewImage("RGBA", TILE, TILE, axis, Transparent)
        opaque == NewImage("RGBA", ctx_keep, TILE, axis, Opaque)
        Built(c, m) == [status |-> "returned", error |-> "none", message |-> "none",
                        canvas |-> c, mask |-> m]
    IN  IF <<base_1024.w, base_1024.h>> # <<TILE, TILE>>
        THEN ContextRaised("Context builder expects a 1024x1024 image.")
        ELSE IF direction = "right"
        THEN Built(Paste(canvas, Crop(base_1024, 0, 0, ctx_keep, TILE), 0, 0),
                   Paste(mask, opaque, 0, 0))
        ELSE IF direction = "left"
        THEN Built(Paste(canvas, Crop(base_1024, TILE - ctx_keep, 0, TILE, TILE),
                         step_px, 0),
                   Paste(mask, opaque, step_px, 0))
        ELSE IF direction = "down"
        THEN Built(Paste(canvas, Crop(base_1024, 0, 0, TILE, ctx_keep), 0, 0),
                   Paste(mask, Resize(opaque, TILE, ctx_keep), 0, 0))
        ELSE IF direction = "up"
        THEN Built(Paste(canvas, Crop(base_1024, 0, TILE - ctx_keep, TILE, TILE),
                         0, step_px),
                   Paste(mask, Resize(opaque, TILE, ctx_keep), 0, step_px))
        ELSE ContextRaised("Invalid direction")

ContextTileRaised(error) == [status |-> "raised", error |-> error, image |-> NoImage]

\* The image object the caller passed to _build_context_and_mask, as it is
\* after the call: base_1024 is only read (size, crop), whether the
\* function returns or raises.
build_context_and_mask_base_after(base_1024, direction, step_px) == base_1024

\* variant: the band is pasted onto the caller's image (out = base, no copy)
blend_strip_base_after_shared(base, new_strip, overlap_px, direction) ==
    LET blended == blend_strip(base, new_strip, overlap_px, direction)
        x == IF direction = "right" THEN Max(0, base.w - overlap_px) ELSE 0
        y == IF direction = "down" THEN Max(0, base.h - overlap_px) ELSE 0
    IN  IF base.mode = "RGBA" /\ blended.status = "returned"
        THEN Paste(base, blended.tmp, x, y)
        ELSE base

\* The image object the caller passed to _blend_strip as base, as it is
\* after the call: convert() and copy() give new images and every paste
\* goes to tmp, to out (= base.copy()) or to the expanded canvas.
blend_strip_base_after(base, new_strip, overlap_px, direction) == base

\* variant: the reference tile taken at the edge being extended
extend_once_context_at_edge(current, direction) ==
    LET axis == current.axis
        padded == NewImage("RGBA", TILE, TILE, axis, Transparent)
        Tile(img) == [status |-> "returned", error |-> "none", image |-> img]
    IN  IF direction \in {"right", "left"}
        THEN IF current.h # TILE THEN ContextTileRaised("AssertionError")
             ELSE IF current.w < TILE
             THEN Tile(Paste(padded, current, (TILE - current.w) \div 2, 0))
             ELSE IF direction = "right"
             THEN Tile(Crop(current, current.w - TILE, 0, current.w, TILE))
             ELSE Tile(Crop(current, 0, 0, TILE, TILE))
        ELSE IF current.w # TILE THEN ContextTileRaised("AssertionError")
             ELSE IF current.h < TILE
             THEN Tile(Paste(padded, current, 0, (TILE - current.h) \div 2))
             ELSE IF direction = "down"
             THEN Tile(Crop(current, 0, current.h - TILE, TILE, current.h))
             ELSE Tile(Crop(current, 0, 0, TILE, TILE))

\* _extend_once: base_for_ctx, the 1024x1024 reference tile taken from
\* current (padded onto a transparent tile when current is shorter)
extend_once_context(current, direction) ==
    LET axis == current.axis
        padded == NewImage("RGBA", TILE, TILE, axis, Transparent)
        Tile(img) == [status |-> "returned", error |-> "none", image |-> img]
    IN  IF direction \in {"right", "left"}
        THEN IF current.h # TILE THEN ContextTileRaised("AssertionError")
             ELSE IF current.w < TILE
             THEN Tile(Paste(padded, current, (TILE - current.w) \div 2, 0))
             ELSE IF direction = "right"
             THEN Tile(Crop(current, current.w - TILE, 0, current.w, TILE))
             ELSE Tile(Crop(current, current.w - TILE, 0, current.w, TILE))
        ELSE IF current.w # TILE THEN ContextTileRaised("AssertionError")
             ELSE IF current.h < TILE
             THEN Tile(Paste(padded, current, 0, (TILE - current.h) \div 2))
             ELSE IF direction = "down"
             THEN Tile(Crop(current, 0, current.h - TILE, TILE, current.h))
             ELSE Tile(Crop(current, 0, 0, TILE, TILE))

\* variant: the overlap columns left out of the strip
extend_once_strip_without_overlap(tile, direction, step_px, overlap_px) ==
    IF direction = "right" THEN Crop(tile, TILE - step_px, 0, TILE, TILE)
    ELSE IF direction = "left" THEN Crop(tile, 0, 0, step_px, TILE)
    ELSE IF direction = "down" THEN Crop(tile, 0, TILE - step_px, TILE, TILE)
    ELSE Crop(tile, 0, 0, TILE, step_px)

\* _extend_once: new_strip_full, the overlap region and the synthesized
\* strip of the provider's tile joined into one strip of step_px + overlap_px
extend_once_strip(tile, direction, step_px, overlap_px) ==
    LET axis == tile.axis
    IN  IF direction = "right"
        THEN LET new_strip == Crop(tile, TILE - step_px, 0, TILE, TILE)
                 overlap_from_tile == Crop(tile, TILE - step_px - overlap_px, 0,
                                           TILE - step_px, TILE)
                 new_strip_full == NewImage("RGBA", step_px + overlap_px, TILE, axis,
                                            Transparent)
             IN  Paste(Paste(new_strip_full, overlap_from_tile, 0, 0),
                       new_strip, overlap_px, 0)
        ELSE IF direction = "left"
        THEN LET new_strip == Crop(tile, 0, 0, step_px, TILE)
                 overlap_from_tile == Crop(tile, step_px, 0, step_px + overlap_px, TILE)
                 new_strip_full == NewImage("RGBA", step_px + overlap_px, TILE, axis,
                                            Transparent)
             IN  Paste(Paste(new_strip_full, new_strip, 0, 0),
                       overlap_from_tile, step_px, 0)
        ELSE IF direction = "down"
        THEN LET new_strip == Crop(tile, 0, TILE - step_px, TILE, TILE)
                 overlap_from_tile == Crop(tile, 0, TILE - step_px - overlap_px,
                                           TILE, TILE - step_px)
                 new_strip_full == NewImage("RGBA", TILE, step_px + overlap_px, axis,
                                            Transparent)
             IN  Paste(Paste(new_strip_full, overlap_from_tile, 0, 0),
                       new_strip, 0, overlap_px)
        ELSE LET new_strip == Crop(tile, 0, 0, TILE, step_px)
                 overlap_from_tile == Crop(tile, 0, step_px, TILE, step_px + overlap_px)
                 new_strip_full == NewImage("RGBA", TILE, step_px + overlap_px, axis,
                                            Transparent)
             IN  Paste(Paste(new_strip_full, new_strip, 0, 0),
                       overlap_from_tile, 0, step_px)

\* the prompt length the provider accepts and the characters kept of a
\* longer prompt
PROMPT_LIMIT == 1000

PROMPT_KEEP == 997

Ellipsis == <<".", ".", ".">>

truncated_prompt_at_limit(prompt) ==
    IF Len(prompt) > PROMPT_LIMIT
    THEN SubSeq(prompt, 1, PROMPT_LIMIT) \o Ellipsis
    ELSE prompt

\* _call_images_edit: prompt[:997] + "..." if len(prompt) > 1000 else prompt
truncated_prompt(prompt) ==
    IF Len(prompt) > PROMPT_LIMIT
    THEN SubSeq(prompt, 1, PROMPT_KEEP) \o Ellipsis
    ELSE prompt

\* ------------------------------------------------------------------------
\* Final assembly of the pipelines
\* ------------------------------------------------------------------------

\* the rectangle of the destination addressed by dst.paste(src, (x, y))
PasteRect(src, x, y) == [x |-> x, y |-> y, w |-> src.w, h |-> src.h]

\* variant: the right strip pasted where the original's width ends
assemble_landscape_at_tile(left_strip, original_image, right_strip) ==
    LET final_image == NewImage("RGBA", TARGET_LONG, TILE, "x", Transparent)
        p1 == Paste(final_image, left_strip, 0, 0)
        p2 == Paste(p1, original_image, CENTRE_AT, 0)
        p3 == Paste(p2, right_strip, TILE, 0)
    IN  [image  |-> p3,
         pastes |-> << PasteRect(left_strip, 0, 0),
                       PasteRect(original_image, CENTRE_AT, 0),
                       PasteRect(right_strip, TILE, 0) >>]

\* _outpaint_landscape, step 3: final canvas and the pastes made, in order
assemble_landscape(left_strip, original_image, right_strip) ==
    LET final_image == NewImage("RGBA", TARGET_LONG, TILE, "x", Transparent)
        p1 == Paste(final_image, left_strip, 0, 0)
        p2 == Paste(p1, original_image, CENTRE_AT, 0)
        p3 == Paste(p2, right_strip, TRAILING_AT, 0)
    IN  [image  |-> p3,
         pastes |-> << PasteRect(left_strip, 0, 0),
                       PasteRect(original_image, CENTRE_AT, 0),
                       PasteRect(right_strip, TRAILING_AT, 0) >>]

\* _outpaint_vertical, step 3
assemble_vertical(top_strip, original_image, bottom_strip) ==
    LET final_image == NewImage("RGBA", TILE, TARGET_LONG, "y", Transparent)
        p1 == Paste(final_image, top_strip, 0, 0)
        p2 == Paste(p1, original_image, 0, CENTRE_AT)
        p3 == Paste(p2, bottom_strip, 0, TRAILING_AT)
    IN  [image  |-> p3,
         pastes |-> << PasteRect(top_strip, 0, 0),
                       PasteRect(original_image, 0, CENTRE_AT),
                       PasteRect(bottom_strip, 0, TRAILING_AT) >>]

\* ------------------------------------------------------------------------
\* Inputs: base images and provider responses
\* ------------------------------------------------------------------------

\* a base whose pixels all differ along the scanline
Gradient(mode, w, h, axis) ==
    [mode |-> mode, w |-> w, h |-> h, axis |-> axis,
     line |-> [i \in 1..AxisLen(axis, w, h) |->
                 ConvertPixel(<<(i - 1) % 256, (i - 1) \div 256, 7, 255>>, mode)]]

SolidColour(k) == <<(k * 97) % 256, (k * 31) % 256, 40, 255>>

\* a base of one colour
Solid(k, mode, w, h, axis) ==
    NewImage(mode, w, h, axis, ConvertPixel(SolidColour(k), mode))

BaseSizes == { <<TILE, TILE>>, <<512, 512>>, <<TILE, 512>> }

BaseImages(axis) ==
    UNION { { Gradient(m, sz[1], sz[2], axis) }
            \cup { Solid(k, m, sz[1], sz[2], axis) : k \in 1..NumSolid }
          : m \in {"RGB", "RGBA"}, sz \in BaseSizes }

SynthColour == <<200, 50, 120, 255>>

\* Tiles the image provider may return for a (canvas, mask) request:
\*   the canvas echoed back unchanged;
\*   the canvas with its masked-out (transparent-mask) pixels painted;
\*   a tile repainted everywhere.
ProviderTiles(canvas, mask) ==
    { canvas,
      [canvas EXCEPT !.line = [i \in 1..Len(canvas.line) |->
            IF mask.line[i][4] = 0 THEN SynthColour ELSE canvas.line[i]]],
      [canvas EXCEPT !.line = [i \in 1..Len(canvas.line) |->
            <<(3 * i) % 256, 9, (i \div 256), 255>>]] }

\* ------------------------------------------------------------------------
\* State of one CampaignGenerator running the outpainting pipelines
\* ------------------------------------------------------------------------

VARIABLES
    dev_mode,           \* self.dev_mode (settings.AI_DEV_MODE)
    pc,                 \* position in _outpaint_landscape / _outpaint_vertical:
                        \* "idle", the direction of the provider call awaited, "done"
    pipeline,           \* "none", "landscape" or "vertical"
    square_image_data,  \* the argument of the running invocation
    original_image,     \* the local original_image
    calls,              \* provider calls issued by the invocation, in order
    tiles,              \* tiles the provider returned, in order
    strips,             \* strips extracted so far (right/bottom first)
    errors,             \* exceptions raised inside the invocation, in order
    pastes,             \* pastes made on final_image, in order
    result              \* what the invocation gives its caller

pvars == << dev_mode, pc, pipeline, square_image_data, original_image,
            calls, tiles, strips, errors, pastes, result >>

\* One call of _blend_strip
VARIABLES
    blend_args,         \* the arguments of the last call
    blend_result        \* its outcome, with the locals of the call

bvars == << blend_args, blend_result >>

\* One call of a helper on its own: _build_context_and_mask, _extend_once,
\* _call_images_edit or _alpha_ramp
VARIABLES
    op,                 \* the helper running, "none" between calls
    op_args,            \* its arguments
    op_call,            \* the request it handed to the provider, if any
    op_result           \* its outcome, with the locals of the call

hvars == << op, op_args, op_call, op_result >>

\* The database rows and the calls of generate_campaign_assets,
\* _save_generated_asset and TranslationService.translate_text
VARIABLES
    use_outpaint_method,  \* self.use_outpaint_method (settings.USE_OUTPAINT_METHOD)
    runs,                 \* table GenerationRun, a row's id is its position
    assets,               \* table GeneratedAsset, a row's id is its position
    procs,                \* each caller's position in generate_campaign_assets, with its locals
    started,              \* generate_campaign_assets calls started so far
    provider_log,         \* image-provider endpoints invoked so far
    save_call,            \* the last direct call of _save_generated_asset and its outcome
    dalle_call,           \* the last direct call of _call_dalle and its outcome
    available_providers,  \* TranslationService.available_providers
    translate_call        \* one call of translate_text: position, arguments, providers tried, outcome

wvars == << use_outpaint_method, runs, assets, procs, started, provider_log,
            save_call, dalle_call, available_providers, translate_call >>

vars == << pvars, bvars, hvars, wvars >>

NoBlendArgs == [base |-> NoImage, new_strip |-> NoImage, overlap_px |-> 0,
                direction |-> "none"]

NoBlend == [status |-> "none", error |-> "none", image |-> NoImage,
            overlap_old |-> NoImage, overlap_new |-> NoImage, ramp |-> NoImage,
            tmp |-> NoImage]

MaxStarts == 2

\* the callers of generate_campaign_assets (two requests may overlap)
Callers == {1, 2}

NoProc ==
    [pc |-> "idle", brief |-> 0, next_run_index |-> 0, run |-> 0, created |-> <<>>,
     work |-> <<>>, assets |-> <<>>, total_time |-> 0, exc |-> "none",
     error |-> "none"]

NoSave ==
    [status |-> "none", run |-> 0, product_name |-> "none", aspect_ratio |-> "none",
     language |-> "none", prompt |-> "none", generation_time |-> 0,
     existing |-> 0, rows_before |-> 0, id |-> 0]

NoDalle == [status |-> "none", source |-> "none", error |-> "none"]

NoTranslate ==
    [pc |-> "idle", text |-> "none", target_language |-> "none",
     source_language |-> "none", index |-> 0, tried |-> <<>>,
     result |-> [marker |-> "none", text |-> "none"], last_error |-> "none",
     error |-> "none"]

\* the values the variables of the database and of the callers have when
\* nothing has been generated yet
WorkflowIdle ==
    /\ runs = <<>>
    /\ assets = <<>>
    /\ procs = [p \in Callers |-> NoProc]
    /\ started = 0
    /\ provider_log = {}
    /\ save_call = NoSave
    /\ dalle_call = NoDalle
    /\ available_providers = <<"MockTranslationProvider">>
    /\ translate_call = NoTranslate

NoOpArgs ==
    [image |-> NoImage, mask |-> NoImage, direction |-> "none", step_px |-> 0,
     overlap_px |-> 0, prompt |-> <<>>, width |-> 0, height |-> 0, horizontal |-> FALSE]

NoOpCall == [canvas |-> NoImage, mask |-> NoImage, prompt |-> <<>>, size |-> "none"]

NoOpResult ==
    [status |-> "none", error |-> "none", message |-> "none", image |-> NoImage,
     canvas |-> NoImage, mask |-> NoImage, base_for_ctx |-> NoImage,
     new_strip_full |-> NoImage, grid |-> <<>>, image_after |-> NoImage]

NoResult == [status |-> "none", branch |-> "none", format |-> "none", image |-> NoImage]

Returned(branch, format, image) ==
    [status |-> "returned", branch |-> branch, format |-> format, image |-> image]

\* one self.client.images.edit request (made by _call_images_edit)
Call(original, direction) ==
    LET cm == extend_direction_canvas(original, direction, STEP)
    IN  [direction |-> direction, canvas |-> cm.canvas, mask |-> cm.mask]

Fallback(which, data) ==
    IF which = "landscape" THEN extend_image_horizontally_fallback(data)
    ELSE extend_image_vertically_fallback(data)

Init ==
    /\ dev_mode \in BOOLEAN
    /\ pc = "idle"
    /\ pipeline = "none"
    /\ square_image_data = NoImage
    /\ original_image = NoImage
    /\ calls = <<>>
    /\ tiles = <<>>
    /\ strips = <<>>
    /\ errors = <<>>
    /\ pastes = <<>>
    /\ result = NoResult
    /\ blend_args = NoBlendArgs
    /\ blend_result = NoBlend
    /\ op = "none"
    /\ op_args = NoOpArgs
    /\ op_call = NoOpCall
    /\ op_result = NoOpResult
    /\ use_outpaint_method = TRUE
    /\ WorkflowIdle

\* Entry of _outpaint_landscape / _outpaint_vertical up to the first provider
\* call: the dev-mode shortcut, the decode, the size check (whose ValueError
\* is raised inside the try block and handled by `except Exception`).
Enter(which, first, data) ==
    /\ pc = "idle"
    /\ UNCHANGED << bvars, hvars, wvars >>
    /\ pipeline' = which
    /\ square_image_data' = data
    /\ tiles' = <<>>
    /\ strips' = <<>>
    /\ pastes' = <<>>
    /\ UNCHANGED dev_mode
    /\ IF dev_mode
       THEN /\ result' = Returned("dev_mode", "JPEG", Fallback(which, data))
            /\ pc' = "done"
            /\ original_image' = NoImage
            /\ calls' = <<>>
            /\ errors' = <<>>
       ELSE LET original == Convert(data, "RGBA")
            IN  /\ original_image' = original
                /\ IF <<original.w, original.h>> # <<TILE, TILE>>
                   THEN /\ errors' = <<"ValueError">>
                        /\ result' = Returned("except", "JPEG", Fallback(which, data))
                        /\ pc' = "done"
                        /\ calls' = <<>>
                   ELSE /\ errors' = <<>>
                        /\ calls' = << Call(original, first) >>
                        /\ result' = NoResult
                        /\ pc' = first

outpaint_landscape ==
    \E data \in BaseImages("x") : Enter("landscape", "right", data)

outpaint_vertical ==
    \E data \in BaseImages("y") : Enter("vertical", "down", data)

\* variant: the second direction extended from the first call's tile
FirstCallReturns_chained ==
    /\ pc \in {"right", "down"}
    /\ UNCHANGED << bvars, hvars, wvars >>
    /\ \E tile \in ProviderTiles(calls[1].canvas, calls[1].mask) :
          /\ tiles' = << tile >>
          /\ strips' = << extend_direction_strip(tile, pc, STEP) >>
          /\ calls' = Append(calls, Call(tile, IF pc = "right" THEN "left" ELSE "up"))
    /\ pc' = IF pc = "right" THEN "left" ELSE "up"
    /\ UNCHANGED << dev_mode, pipeline, square_image_data, original_image,
                    errors, pastes, result >>

\* The first provider call (right / down) returns a tile: the strip is
\* cropped and the second call (left / up) is issued from original_image.
FirstCallReturns ==
    /\ pc \in {"right", "down"}
    /\ UNCHANGED << bvars, hvars, wvars >>
    /\ \E tile \in ProviderTiles(calls[1].canvas, calls[1].mask) :
          /\ tiles' = << tile >>
          /\ strips' = << extend_direction_strip(tile, pc, STEP) >>
    /\ calls' = Append(calls, Call(original_image, IF pc = "right" THEN "left" ELSE "up"))
    /\ pc' = IF pc = "right" THEN "left" ELSE "up"
    /\ UNCHANGED << dev_mode, pipeline, square_image_data, original_image,
                    errors, pastes, result >>

\* The second provider call returns a tile: the strip is cropped, the final
\* image assembled and returned as PNG.
SecondCallReturns ==
    /\ pc \in {"left", "up"}
    /\ UNCHANGED << bvars, hvars, wvars >>
    /\ \E tile \in ProviderTiles(calls[2].canvas, calls[2].mask) :
          LET second == extend_direction_strip(tile, pc, STEP)
              final == IF pc = "left"
                       THEN assemble_landscape(second, original_image, strips[1])
                       ELSE assemble_vertical(second, original_image, strips[1])
          IN  /\ tiles' = Append(tiles, tile)
              /\ strips' = Append(strips, second)
              /\ pastes' = final.pastes
              /\ result' = Returned("ai", "PNG", final.image)
    /\ pc' = "done"
    /\ UNCHANGED << dev_mode, pipeline, square_image_data, original_image,
                    calls, errors >>

\* variant: no except clause, the provider's error reaches the caller
ProviderRaises_reraise ==
    /\ pc \in {"right", "left", "down", "up"}
    /\ UNCHANGED << bvars, hvars, wvars >>
    /\ errors' = Append(errors, "ProviderError")
    /\ result' = [status |-> "raised", branch |-> "none", format |-> "none",
                  image |-> NoImage]
    /\ pc' = "done"
    /\ UNCHANGED << dev_mode, pipeline, square_image_data, original_image,
                    calls, tiles, strips, pastes >>

\* variant: a strip already synthesized is kept on top of the fallback image
ProviderRaises_salvage ==
    /\ pc \in {"right", "left", "down", "up"}
    /\ UNCHANGED << bvars, hvars, wvars >>
    /\ errors' = Append(errors, "ProviderError")
    /\ LET fb == Fallback(pipeline, square_image_data)
       IN  result' = Returned("except", "JPEG",
                        IF strips = <<>> THEN fb
                        ELSE IF pipeline = "landscape"
                             THEN Paste(fb, strips[1], TRAILING_AT, 0)
                             ELSE Paste(fb, strips[1], 0, TRAILING_AT))
    /\ pc' = "done"
    /\ UNCHANGED << dev_mode, pipeline, square_image_data, original_image,
                    calls, tiles, strips, pastes >>

\* variant: the failed call is issued once more
ProviderRaises_retry ==
    /\ pc \in {"right", "left", "down", "up"}
    /\ Len(calls) < 3
    /\ UNCHANGED << bvars, hvars, wvars >>
    /\ errors' = Append(errors, "ProviderError")
    /\ calls' = Append(calls, calls[Len(calls)])
    /\ UNCHANGED << dev_mode, pc, pipeline, square_image_data, original_image,
                    tiles, strips, pastes, result >>

\* A provider call raises (network error, API error, malformed response):
\* _extend_direction lets it through, the pipeline's `except Exception`
\* returns the fallback extender's image of the original bytes.
ProviderRaises ==
    /\ pc \in {"right", "left", "down", "up"}
    /\ UNCHANGED << bvars, hvars, wvars >>
    /\ errors' = Append(errors, "ProviderError")
    /\ result' = Returned("except", "JPEG", Fallback(pipeline, square_image_data))
    /\ pc' = "done"
    /\ UNCHANGED << dev_mode, pipeline, square_image_data, original_image,
                    calls, tiles, strips, pastes >>

\* The caller takes the result; the generator is ready for the next call.
Return ==
    /\ pc = "done"
    /\ UNCHANGED << bvars, hvars, wvars >>
    /\ pc' = "idle"
    /\ pipeline' = "none"
    /\ square_image_data' = NoImage
    /\ original_image' = NoImage
    /\ calls' = <<>>
    /\ tiles' = <<>>
    /\ strips' = <<>>
    /\ errors' = <<>>
    /\ pastes' = <<>>
    /\ result' = NoResult
    /\ UNCHANGED dev_mode

Next ==
    \/ outpaint_landscape
    \/ outpaint_vertical
    \/ FirstCallReturns
    \/ SecondCallReturns
    \/ ProviderRaises
    \/ Return

Spec == Init /\ [][Next]_vars

\* ------------------------------------------------------------------------
\* Properties of the pipelines (specification Spec)
\* ------------------------------------------------------------------------

ValidBase == <<square_image_data.w, square_image_data.h>> = <<1024, 1024>>

Finished == pc = "done"

\* C1: for every 1024x1024 base, _outpaint_landscape returns an image of
\* exactly 1792x1024 and _outpaint_vertical one of exactly 1024x1792,
\* whichever branch ran (AI, fallback after a failure, dev-mode fallback).
C1_SizeInvariant ==
    (Finished /\ ValidBase) =>
        /\ result.status = "returned"
        /\ result.branch \in {"ai", "except", "dev_mode"}
        /\ Len(result.image.line) = 1792
        /\ pipeline = "landscape" => <<result.image.w, result.image.h>> = <<1792, 1024>>
        /\ pipeline = "vertical"  => <<result.image.w, result.image.h>> = <<1024, 1792>>

C1_Witness ==
    /\ Finished /\ ValidBase /\ dev_mode
    /\ pipeline = "landscape"
    /\ <<result.image.w, result.image.h>> = <<1792, 1024>>

\* C2: in every landscape or portrait output, AI branch and fallback branch
\* alike, the central 1024x1024 region (offsets 384..1407 on the extension
\* axis) holds exactly the pixels of the original base.
C2_CentrePreserved ==
    (Finished /\ ValidBase /\ result.status = "returned") =>
        \A i \in 1..1024 :
            result.image.line[384 + i]
                = ConvertPixel(square_image_data.line[i], result.image.mode)

\* C3: when the provider raises on a call (first or second direction) the
\* pipeline does not raise to its caller: it returns the fallback
\* extender's image of the target size.
C3_ProviderFailureFallsBack ==
    (Finished /\ errors # <<>> /\ errors[Len(errors)] = "ProviderError") =>
        /\ result.status = "returned"
        /\ result.branch = "except"
        /\ result.format = "JPEG" /\ result.image.mode = "RGB"
        /\ <<result.image.w, result.image.h>>
               = IF pipeline = "landscape" THEN <<1792, 1024>> ELSE <<1024, 1792>>

C3_Witness ==
    /\ Finished /\ pipeline = "vertical"
    /\ errors = <<"ProviderError">> /\ Len(calls) = 1
    /\ result.status = "returned"

\* C4: the returned image is all-or-nothing: either both provider calls
\* succeeded and both margins are the provider's strips, or the whole image
\* is the fallback extender's output for the original base; never one
\* synthesized strip next to fallback content.
C4_AllOrNothing ==
    (Finished /\ ValidBase /\ result.status = "returned") =>
        \/ /\ result.branch = "ai"
           /\ errors = <<>> /\ Len(tiles) = 2
           /\ \A i \in 1..384 : result.image.line[i] = tiles[2].line[i]
           /\ \A i \in 1..384 : result.image.line[1408 + i] = tiles[1].line[640 + i]
        \/ /\ result.branch # "ai"
           /\ result.image = Fallback(pipeline, square_image_data)

C4_Witness ==
    /\ Finished /\ pipeline = "landscape"
    /\ Len(tiles) = 1 /\ Len(calls) = 2 /\ errors = <<"ProviderError">>
    /\ tiles[1] # calls[1].canvas
    /\ result.branch = "except"

\* C5: a base that is not exactly 1024x1024 makes the pipeline fail with an
\* invalid-base-size error; no image is returned for such an input.
C5_InvalidBaseRejected ==
    (Finished /\ ~ValidBase) =>
        /\ result.status = "raised"
        /\ result.image = NoImage

\* C6: the canvas and mask of the second provider call (left / up) are a
\* function of the original base only, whatever tile the first call
\* returned, and the pipeline's original_image is unchanged between the calls.
C6_SecondCallFromOriginal ==
    (Len(calls) = 2) =>
        /\ original_image = Convert(square_image_data, "RGBA")
        /\ calls[2].direction = (IF pipeline = "landscape" THEN "left" ELSE "up")
        /\ \A i \in 1..1024 :
              /\ calls[2].canvas.line[i]
                    = IF i <= 384 THEN Transparent
                      ELSE ConvertPixel(square_image_data.line[i - 384], "RGBA")
              /\ calls[2].mask.line[i] = IF i <= 384 THEN Transparent ELSE Opaque

C6_Witness ==
    /\ pc \in {"left", "up"}
    /\ Len(calls) = 2 /\ Len(tiles) = 1
    /\ tiles[1] # calls[1].canvas

PasteFrom(r) == IF pipeline = "landscape" THEN r.x ELSE r.y

PasteLen(r) == IF pipeline = "landscape" THEN r.w ELSE r.h

\* C7: on the AI path the final canvas is assembled by pasting, in order,
\* the leading strip at 0, the original at 384 and the trailing strip at
\* 1408 on the extension axis; the three rectangles are pairwise disjoint
\* and together cover the 1792-long canvas.
C7_AssemblyGeometry ==
    (Finished /\ result.branch = "ai") =>
        /\ Len(pastes) = 3
        /\ << PasteFrom(pastes[1]), PasteFrom(pastes[2]), PasteFrom(pastes[3]) >>
               = << 0, 384, 1408 >>
        /\ PasteLen(pastes[2]) = 1024
        /\ \A k \in 1..3 : /\ (IF pipeline = "landscape" THEN pastes[k].y ELSE pastes[k].x) = 0
                           /\ (IF pipeline = "landscape" THEN pastes[k].h ELSE pastes[k].w) = 1024
        /\ \A i \in 0..1791 :
              Cardinality({k \in 1..3 : PasteFrom(pastes[k]) <= i
                                        /\ i < PasteFrom(pastes[k]) + PasteLen(pastes[k])}) = 1

C7_Witness ==
    /\ Finished /\ result.branch = "ai" /\ pipeline = "vertical"
    /\ Len(pastes) = 3

IsSolid(img) == \A i \in 1..Len(img.line) : img.line[i] = img.line[1]

\* a finished landscape run with a solid base and a provider that echoed
\* its input canvas on both calls
EchoRun ==
    /\ Finished /\ pipeline = "landscape" /\ result.branch = "ai"
    /\ ValidBase /\ IsSolid(square_image_data)
    /\ tiles[1] = calls[1].canvas /\ tiles[2] = calls[2].canvas

CentreIsOriginalColour ==
    \A i \in 385..1408 :
        result.image.line[i] = ConvertPixel(square_image_data.line[1], "RGBA")

\* C8 (as stated): with an echoing stub provider and a solid 1024x1024
\* base, the 1792x1024 landscape output has the original colour at x in
\* [384,1408) and no transparent (alpha 0) pixel at x < 384 or x >= 1408.
C8_EchoMarginsOpaque ==
    EchoRun =>
        /\ <<result.image.w, result.image.h>> = <<1792, 1024>>
        /\ CentreIsOriginalColour
        /\ \A i \in (1..384) \cup (1409..1792) : result.image.line[i][4] # 0

\* C8 (amended): with an echoing stub provider and a solid 1024x1024 base,
\* the 1792x1024 landscape output has the original colour at x in
\* [384,1408) and every pixel at x < 384 or x >= 1408 is the echoed
\* canvas's empty gap: fully transparent (alpha 0).
C8_EchoMarginsTransparent ==
    EchoRun =>
        /\ <<result.image.w, result.image.h>> = <<1792, 1024>>
        /\ CentreIsOriginalColour
        /\ \A i \in (1..384) \cup (1409..1792) : result.image.line[i] = Transparent

C8_Witness ==
    /\ EchoRun
    /\ square_image_data.mode = "RGB"

\* ------------------------------------------------------------------------
\* _blend_strip on its own: calls with arbitrary small images
\* ------------------------------------------------------------------------

CrossSizes == {2, 3}

BlendAxis(direction) == IF direction \in {"right", "left"} THEN "x" ELSE "y"

\* an image of length n along axis and size c across it
Strip1D(mode, n, c, axis, line) ==
    [mode |-> mode, w |-> IF axis = "x" THEN n ELSE c,
     h |-> IF axis = "x" THEN c ELSE n, axis |-> axis, line |-> line]

BlendBases(axis) ==
    UNION { { Strip1D("RGBA", n, c, axis, [i \in 1..n |-> <<200, 200, 200, 255>>]),
              Strip1D("RGB", n, c, axis, [i \in 1..n |-> <<20 * i, 100, 0>>]) }
          : n \in 1..MaxBase, c \in CrossSizes }

BlendStrips(axis) ==
    UNION { { Strip1D("RGBA", n, c, axis, [i \in 1..n |-> <<200, 200, 200, 255>>]),
              Strip1D("RGBA", n, c, axis, [i \in 1..n |-> <<250 - 30 * i, 10, 60, 255>>]) }
          : n \in 1..MaxStrip, c \in CrossSizes }

BlendInit ==
    /\ dev_mode = FALSE
    /\ pc = "idle"
    /\ pipeline = "none"
    /\ square_image_data = NoImage
    /\ original_image = NoImage
    /\ calls = <<>>
    /\ tiles = <<>>
    /\ strips = <<>>
    /\ errors = <<>>
    /\ pastes = <<>>
    /\ result = NoResult
    /\ blend_args = NoBlendArgs
    /\ blend_result = NoBlend
    /\ op = "none"
    /\ op_args = NoOpArgs
    /\ op_call = NoOpCall
    /\ op_result = NoOpResult
    /\ use_outpaint_method = TRUE
    /\ WorkflowIdle

BlendCall ==
    /\ blend_result.status = "none"
    /\ \E direction \in {"right", "left", "down", "up"}, overlap_px \in 1..MaxOverlap :
        \E base \in BlendBases(BlendAxis(direction)),
           new_strip \in BlendStrips(BlendAxis(direction)) :
          /\ blend_args' = [base |-> base, new_strip |-> new_strip,
                            overlap_px |-> overlap_px, direction |-> direction]
          /\ blend_result' = blend_strip(base, new_strip, overlap_px, direction)
    /\ UNCHANGED << pvars, hvars, wvars >>

\* the caller takes the outcome
BlendReturn ==
    /\ blend_result.status # "none"
    /\ blend_args' = NoBlendArgs
    /\ blend_result' = NoBlend
    /\ UNCHANGED << pvars, hvars, wvars >>

BlendNext == BlendCall \/ BlendReturn

SpecBlend == BlendInit /\ [][BlendNext]_vars

\* ------------------------------------------------------------------------
\* Properties of _blend_strip (specification SpecBlend)
\* ------------------------------------------------------------------------

BlendReturned == blend_result.status = "returned"

\* C9: every channel of every pixel of the blended overlap band (the two
\* masked pastes onto the temporary band) lies within the closed range
\* bounded by the old (base) and the new (strip) value; when old equals new
\* the blended value equals them.
C9_BlendWithinRange ==
    BlendReturned =>
        \A i \in 1..Len(blend_result.tmp.line) : \A c \in 1..4 :
            LET old == blend_result.overlap_old.line[i][c]
                new == blend_result.overlap_new.line[i][c]
                val == blend_result.tmp.line[i][c]
            IN  Min(old, new) <= val /\ val <= Max(old, new)

\* length of an image along the extension axis of the call
AlongLen(img) == IF img.axis = "x" THEN img.w ELSE img.h

\* C10: for each of the four directions and every strip longer than
\* overlap_px (on a base at least overlap_px long), the returned image holds the blended band in the
\* overlap_px-long region of base nearest the extension edge and the
\* strip's remainder beyond the overlap in the newly added space.
C10_BandAndRemainderInOutput ==
    LET b   == AlongLen(blend_args.base)
        n   == AlongLen(blend_args.new_strip)
        o   == blend_args.overlap_px
        out == blend_result.image.line
        new == Convert(blend_args.new_strip, "RGBA").line
    IN  (BlendReturned /\ n > o /\ b >= o) =>
            IF blend_args.direction \in {"right", "down"}
            THEN /\ \A i \in 1..o : out[b - o + i] = blend_result.tmp.line[i]
                 /\ \A j \in 1..(n - o) : out[b + j] = new[o + j]
            ELSE /\ \A i \in 1..o : out[n - o + i] = blend_result.tmp.line[i]
                 /\ \A j \in 1..(n - o) : out[j] = new[j]

\* base and new_strip differ on the axis the direction does not extend
NonExtensionMismatch ==
    IF blend_args.direction \in {"right", "left"}
    THEN blend_args.base.h # blend_args.new_strip.h
    ELSE blend_args.base.w # blend_args.new_strip.w

\* C11: _blend_strip fails with a dimension-mismatch error (the alignment
\* assertion or the masked paste's size-mismatch error) whenever base and
\* new_strip differ on the non-extension axis of the direction: heights for
\* left/right, widths for up/down, also when the other axis matches.
C11_MismatchRaises ==
    (blend_result.status # "none" /\ NonExtensionMismatch) =>
        /\ blend_result.status = "raised"
        /\ blend_result.error \in {"AssertionError", "ValueError"}
        /\ blend_result.image = NoImage

\* heights differ and widths agree on a horizontal call: the assertion
\* passes and the call still fails
C11_Witness ==
    /\ blend_result.status = "raised"
    /\ blend_args.direction \in {"right", "left"}
    /\ blend_args.base.h # blend_args.new_strip.h
    /\ blend_args.base.w = blend_args.new_strip.w
    /\ blend_args.base.w >= blend_args.overlap_px

\* C12: the image _blend_strip returns has base's length on the
\* non-extension axis; on the extension axis it has base's length plus
\* (strip length - overlap_px) when the strip is longer than overlap_px and
\* base's length unchanged when it is not.
C12_OutputSize ==
    LET b == AlongLen(blend_args.base)
        n == AlongLen(blend_args.new_strip)
        o == blend_args.overlap_px
        horizontal == blend_args.direction \in {"right", "left"}
        across(img) == IF horizontal THEN img.h ELSE img.w
        along(img) == IF horizontal THEN img.w ELSE img.h
    IN  BlendReturned =>
            /\ across(blend_result.image) = across(blend_args.base)
            /\ along(blend_result.image) = (IF n > o THEN b + (n - o) ELSE b)
            /\ Len(blend_result.image.line) = along(blend_result.image)

C12_Witness ==
    /\ BlendReturned
    /\ AlongLen(blend_args.new_strip) > blend_args.overlap_px
    /\ AlongLen(blend_result.image) > AlongLen(blend_args.base)

C12_WitnessShortStrip ==
    /\ BlendReturned
    /\ AlongLen(blend_args.new_strip) <= blend_args.overlap_px

\* ------------------------------------------------------------------------
\* The helpers on their own: _build_context_and_mask, _extend_once,
\* _call_images_edit, _alpha_ramp called with arbitrary arguments
\* ------------------------------------------------------------------------

MaxRamp == 4

Directions == {"right", "left", "down", "up"}

\* step_px of the context builder: both ends of 1..1023, the default and
\* values around the middle
ContextSteps == {1, 2, 192, STEP, 511, 512, 513, 1022, 1023}

ContextBases(axis) ==
    { Gradient("RGBA", TILE, TILE, axis), Gradient("RGB", TILE, TILE, axis),
      Gradient("RGBA", 512, 512, axis), Gradient("RGBA", TILE, 512, axis),
      Gradient("RGBA", 512, TILE, axis) }

\* lengths of current along the extension axis: shorter than a tile, one
\* tile, a tile already extended once
CurrentLengths == {100, TILE, TILE + STEP}

\* <<step_px, overlap_px>> with step_px + overlap_px <= 1024
StepOverlaps == { <<STEP, 192>>, <<1, 1023>> }

\* current: 1024 across the extension axis, and one that is not
Currents(axis) ==
    { Strip1D("RGBA", n, TILE, axis, Gradient("RGBA", n, n, axis).line)
        : n \in CurrentLengths }
    \cup { Strip1D("RGBA", TILE, 512, axis, Gradient("RGBA", TILE, TILE, axis).line) }

PromptLengths == {0, 1, 997, 999, 1000, 1001, 1002, 1003, 1500}

\* a prompt of n characters, none of them a full stop
PromptOf(n) == [i \in 1..n |-> IF i % 7 = 0 THEN " " ELSE IF i % 2 = 0 THEN "a" ELSE "b"]

ShortPrompt == PromptOf(12)

HelperInit ==
    /\ dev_mode = FALSE
    /\ pc = "idle"
    /\ pipeline = "none"
    /\ square_image_data = NoImage
    /\ original_image = NoImage
    /\ calls = <<>>
    /\ tiles = <<>>
    /\ strips = <<>>
    /\ errors = <<>>
    /\ pastes = <<>>
    /\ result = NoResult
    /\ blend_args = NoBlendArgs
    /\ blend_result = NoBlend
    /\ op = "none"
    /\ op_args = NoOpArgs
    /\ op_call = NoOpCall
    /\ op_result = NoOpResult
    /\ use_outpaint_method = TRUE
    /\ WorkflowIdle

\* _build_context_and_mask(base_1024, direction, step_px)
BuildContextCall ==
    /\ op = "none"
    /\ \E direction \in Directions \cup {"diagonal"}, step_px \in ContextSteps :
        \E base_1024 \in ContextBases(BlendAxis(direction)) :
          /\ step_px = STEP \/ (direction \in Directions
                                /\ base_1024 = Gradient("RGBA", TILE, TILE,
                                                        BlendAxis(direction)))
          /\ op' = "_build_context_and_mask"
          /\ op_args' = [NoOpArgs EXCEPT !.image = base_1024, !.direction = direction,
                                         !.step_px = step_px]
          /\ LET built == build_context_and_mask(base_1024, direction, step_px)
             IN  op_result' = [NoOpResult EXCEPT !.status = built.status,
                                                 !.error = built.error,
                                                 !.message = built.message,
                                                 !.canvas = built.canvas,
                                                 !.mask = built.mask,
                                                 !.image_after =
                                                    build_context_and_mask_base_after(
                                                        base_1024, direction, step_px)]
    /\ UNCHANGED << wvars, pvars, bvars, op_call >>

\* the request _call_images_edit hands to client.images.edit
EditRequest(canvas_rgba, mask_rgba, prompt) ==
    [canvas |-> canvas_rgba, mask |-> mask_rgba, prompt |-> truncated_prompt(prompt),
     size |-> "1024x1024"]

\* _extend_once up to the provider call: the reference tile, the canvas and
\* mask, the request.  An assertion or the context builder may raise first.
ExtendOnceCall ==
    /\ op = "none"
    /\ \E direction \in Directions, so \in StepOverlaps :
        \E current \in Currents(BlendAxis(direction)) :
          LET ctx == extend_once_context(current, direction)
              built == build_context_and_mask(ctx.image, direction, so[1])
              raised == IF ctx.status = "raised" THEN ctx.error
                        ELSE IF built.status = "raised" THEN built.error ELSE "none"
          IN  /\ op' = "_extend_once"
              /\ op_args' = [NoOpArgs EXCEPT !.image = current, !.direction = direction,
                                             !.step_px = so[1], !.overlap_px = so[2],
                                             !.prompt = ShortPrompt]
              /\ IF raised # "none"
                 THEN /\ op_result' = [NoOpResult EXCEPT !.status = "raised",
                                                         !.error = raised,
                                                         !.image_after = current]
                      /\ op_call' = NoOpCall
                 ELSE /\ op_result' = [NoOpResult EXCEPT !.status = "pending",
                                                         !.base_for_ctx = ctx.image,
                                                         !.canvas = built.canvas,
                                                         !.mask = built.mask,
                                                         !.image_after = current]
                      /\ op_call' = EditRequest(built.canvas, built.mask, ShortPrompt)
    /\ UNCHANGED << wvars, pvars, bvars >>

\* the provider returns a tile to _extend_once: the strip is cut from it and
\* blended onto current
ExtendOnceTile ==
    /\ op = "_extend_once"
    /\ op_result.status = "pending"
    /\ \E tile \in ProviderTiles(op_call.canvas, op_call.mask) :
        LET new_strip_full == extend_once_strip(tile, op_args.direction,
                                                op_args.step_px, op_args.overlap_px)
            blended == blend_strip(op_args.image, new_strip_full,
                                   op_args.overlap_px, op_args.direction)
        IN  op_result' = [op_result EXCEPT !.status = blended.status,
                                           !.error = blended.error,
                                           !.image = blended.image,
                                           !.new_strip_full = new_strip_full,
                                           !.image_after =
                                              blend_strip_base_after(
                                                  op_args.image, new_strip_full,
                                                  op_args.overlap_px, op_args.direction)]
    /\ UNCHANGED << wvars, pvars, bvars, op, op_args, op_call >>

\* _call_images_edit(canvas_rgba, mask_rgba, prompt) up to the provider call
CallImagesEdit ==
    /\ op = "none"
    /\ \E n \in PromptLengths :
        LET built == build_context_and_mask(Gradient("RGBA", TILE, TILE, "x"),
                                            "right", STEP)
        IN  /\ op' = "_call_images_edit"
            /\ op_args' = [NoOpArgs EXCEPT !.image = built.canvas, !.mask = built.mask,
                                           !.prompt = PromptOf(n)]
            /\ op_call' = EditRequest(built.canvas, built.mask, PromptOf(n))
            /\ op_result' = [NoOpResult EXCEPT !.status = "pending"]
    /\ UNCHANGED << wvars, pvars, bvars >>

\* the provider returns a tile to _call_images_edit, which returns it as RGBA
CallImagesEditTile ==
    /\ op = "_call_images_edit"
    /\ op_result.status = "pending"
    /\ \E tile \in ProviderTiles(op_call.canvas, op_call.mask) :
        op_result' = [op_result EXCEPT !.status = "returned",
                                       !.image = Convert(tile, "RGBA")]
    /\ UNCHANGED << wvars, pvars, bvars, op, op_args, op_call >>

\* client.images.edit raises: neither _call_images_edit nor _extend_once has
\* a handler, the error leaves the helper
HelperProviderRaises ==
    /\ op \in {"_extend_once", "_call_images_edit"}
    /\ op_result.status = "pending"
    /\ op_result' = [op_result EXCEPT !.status = "raised", !.error = "ProviderError"]
    /\ UNCHANGED << wvars, pvars, bvars, op, op_args, op_call >>

\* _alpha_ramp(width, height, horizontal)
AlphaRampCall ==
    /\ op = "none"
    /\ \E width \in (1..MaxRamp) \cup {192}, height \in (1..MaxRamp) \cup {192},
          horizontal \in BOOLEAN :
          /\ op' = "_alpha_ramp"
          /\ op_args' = [NoOpArgs EXCEPT !.width = width, !.height = height,
                                         !.horizontal = horizontal]
          /\ op_result' =
                [NoOpResult EXCEPT
                    !.status = "returned",
                    !.image = alpha_ramp(width, height, horizontal),
                    !.grid = [xy \in (0..(width - 1)) \X (0..(height - 1)) |->
                                alpha_ramp_pixel(width, height, horizontal,
                                                 xy[1], xy[2])]]
    /\ UNCHANGED << wvars, pvars, bvars, op_call >>

\* the caller takes the outcome
HelperReturn ==
    /\ op # "none"
    /\ op_result.status \in {"returned", "raised"}
    /\ op' = "none"
    /\ op_args' = NoOpArgs
    /\ op_call' = NoOpCall
    /\ op_result' = NoOpResult
    /\ UNCHANGED << wvars, pvars, bvars >>

HelperNext ==
    \/ BuildContextCall
    \/ ExtendOnceCall
    \/ ExtendOnceTile
    \/ CallImagesEdit
    \/ CallImagesEditTile
    \/ HelperProviderRaises
    \/ AlphaRampCall
    \/ HelperReturn

SpecHelpers == HelperInit /\ [][HelperNext]_vars


\* ------------------------------------------------------------------------
\* Properties of the helpers (specification SpecHelpers)
\* ------------------------------------------------------------------------

ContextBuilt == op = "_build_context_and_mask" /\ op_result.status = "returned"

\* positions (1-based, along the extension axis) of the kept block: keep =
\* 1024 - step_px pixels on the side opposite the extension direction
KeptBlock(direction, step_px) ==
    IF direction \in {"right", "down"} THEN 1..(1024 - step_px)
    ELSE (step_px + 1)..1024

\* C13: for every direction and step_px in 1..1023, the mask returned by
\* _build_context_and_mask is fully opaque at exactly the pixels where the
\* canvas received retained base content (the block of 1024 - step_px on the
\* side opposite the extension direction) and fully transparent at exactly
\* the step_px margin, where the canvas is transparent too.
C13_MaskMatchesCanvas ==
    ContextBuilt =>
        LET kept == KeptBlock(op_args.direction, op_args.step_px)
            base == Convert(op_args.image, "RGBA").line
        IN  /\ Cardinality(kept) = 1024 - op_args.step_px
            /\ \A i \in 1..1024 :
                IF i \in kept
                THEN /\ op_result.mask.line[i] = Opaque
                     /\ op_result.canvas.line[i] = base[i]
                ELSE /\ op_result.mask.line[i] = Transparent
                     /\ op_result.canvas.line[i] = Transparent

C13_Witness ==
    /\ ContextBuilt
    /\ op_args.direction = "up"
    /\ op_args.step_px = 1023
    /\ op_result.mask.line[1024] = Opaque
    /\ op_result.mask.line[1023] = Transparent

\* C15: _build_context_and_mask raises and returns nothing when the base is
\* not exactly 1024x1024, and raises when the direction is not one of left,
\* right, up, down; the size is checked before the direction is looked at.
C15_ContextRejects ==
    (op = "_build_context_and_mask" /\ op_result.status # "none") =>
        IF <<op_args.image.w, op_args.image.h>> # <<1024, 1024>>
        THEN /\ op_result.status = "raised"
             /\ op_result.error = "ValueError"
             /\ op_result.message = "Context builder expects a 1024x1024 image."
             /\ op_result.canvas = NoImage /\ op_result.mask = NoImage
        ELSE IF op_args.direction \notin {"left", "right", "up", "down"}
        THEN /\ op_result.status = "raised"
             /\ op_result.error = "ValueError"
             /\ op_result.message = "Invalid direction"
             /\ op_result.canvas = NoImage /\ op_result.mask = NoImage
        ELSE op_result.status = "returned"

\* a wrong size together with a wrong direction
C15_Witness ==
    /\ op = "_build_context_and_mask"
    /\ op_result.status = "raised"
    /\ <<op_args.image.w, op_args.image.h>> = <<1024, 512>>
    /\ op_args.direction = "diagonal"

\* C16: in _extend_once, for each direction and every current at least 1024
\* long on the extension axis, the reference tile is the 1024-long region
\* of current touching the edge being extended: leftmost for left,
\* rightmost for right, topmost for up, bottommost for down.
C16_ReferenceTileAtEdge ==
    (op = "_extend_once" /\ op_result.base_for_ctx # NoImage
        /\ AlongLen(op_args.image) >= 1024) =>
        LET n == AlongLen(op_args.image)
            first == IF op_args.direction \in {"left", "up"} THEN 0 ELSE n - 1024
        IN  /\ <<op_result.base_for_ctx.w, op_result.base_for_ctx.h>> = <<1024, 1024>>
            /\ \A i \in 1..1024 :
                op_result.base_for_ctx.line[i] = op_args.image.line[first + i]

\* the provider's tile has come back to _extend_once
TileReceived == op = "_extend_once" /\ op_result.new_strip_full # NoImage

\* C17: for each direction, every step_px >= 1 and overlap_px with
\* step_px + overlap_px <= 1024, and a provider returning a 1024x1024 tile,
\* _extend_once returns an image whose extension-axis length is current's
\* length plus exactly step_px and whose other axis is 1024.
C17_ExtendOnceSize ==
    TileReceived =>
        /\ op_result.status = "returned"
        /\ AlongLen(op_result.image) = AlongLen(op_args.image) + op_args.step_px
        /\ Len(op_result.image.line) = AlongLen(op_result.image)
        /\ (IF op_args.direction \in {"right", "left"}
            THEN op_result.image.h ELSE op_result.image.w) = 1024

\* C19: for every width >= 1 and height >= 1, _alpha_ramp(width, height,
\* horizontal=True) is nondecreasing from left to right with 0 in the first
\* column and 255 in the last and constant down each column;
\* horizontal=False is nondecreasing from top to bottom with 0 in the first
\* row and 255 in the last and constant along each row.
C19_RampMonotone ==
    (op = "_alpha_ramp" /\ op_result.status = "returned") =>
        LET w == op_args.width
            h == op_args.height
            g == op_result.grid
        IN  IF op_args.horizontal
            THEN \A y \in 0..(h - 1) :
                    /\ g[<<0, y>>] = 0
                    /\ g[<<w - 1, y>>] = 255
                    /\ \A x \in 0..(w - 1) :
                        /\ g[<<x, y>>] = g[<<x, 0>>]
                        /\ x > 0 => g[<<x - 1, y>>] <= g[<<x, y>>]
            ELSE \A x \in 0..(w - 1) :
                    /\ g[<<x, 0>>] = 0
                    /\ g[<<x, h - 1>>] = 255
                    /\ \A y \in 0..(h - 1) :
                        /\ g[<<x, y>>] = g[<<0, y>>]
                        /\ y > 0 => g[<<x, y - 1>>] <= g[<<x, y>>]

\* C20: the prompt _call_images_edit submits never exceeds 1000 characters:
\* a prompt of at most 1000 characters is submitted unchanged, a longer one
\* as its first 997 characters followed by a three-character ellipsis.
C20_PromptTruncated ==
    (op = "_call_images_edit") =>
        /\ Len(op_call.prompt) <= 1000
        /\ IF Len(op_args.prompt) <= 1000
           THEN op_call.prompt = op_args.prompt
           ELSE /\ Len(op_call.prompt) = 1000
                /\ \A i \in 1..997 : op_call.prompt[i] = op_args.prompt[i]
                /\ \A i \in 998..1000 : op_call.prompt[i] = "."

C20_Witness ==
    /\ op = "_call_images_edit"
    /\ Len(op_args.prompt) = 1001
    /\ Len(op_call.prompt) = 1000

\* ------------------------------------------------------------------------
\* One generator whose caller runs a pipeline or a provider-calling helper,
\* one invocation at a time
\* ------------------------------------------------------------------------

\* a step of a pipeline, no helper call being open
PipelineStep == op = "none" /\ Next

\* a step of _build_context_and_mask or _extend_once, no pipeline running
HelperStep ==
    /\ pc = "idle"
    /\ \/ BuildContextCall
       \/ ExtendOnceCall
       \/ ExtendOnceTile
       \/ HelperProviderRaises
       \/ HelperReturn

EngineNext == PipelineStep \/ HelperStep

SpecEngine == Init /\ [][EngineNext]_vars

\* ------------------------------------------------------------------------
\* Properties of pipelines and helpers together (specification SpecEngine)
\* ------------------------------------------------------------------------

TileSized(img) == <<img.w, img.h>> = <<1024, 1024>> /\ Len(img.line) = 1024

\* C14: every (canvas, mask) pair built for the provider, by
\* _build_context_and_mask and by _extend_direction, for every direction,
\* has identical width and height, both exactly 1024x1024; no provider
\* call of a pipeline run (or of _extend_once) is issued with a canvas or
\* mask of another size.
C14_RequestsTileSized ==
    /\ \A k \in 1..Len(calls) : TileSized(calls[k].canvas) /\ TileSized(calls[k].mask)
    /\ (op = "_build_context_and_mask" /\ op_result.status = "returned") =>
            TileSized(op_result.canvas) /\ TileSized(op_result.mask)
    /\ op_call # NoOpCall =>
            /\ TileSized(op_call.canvas) /\ TileSized(op_call.mask)
            /\ op_call.size = "1024x1024"

C14_Witness ==
    /\ op = "_extend_once"
    /\ op_args.direction = "up"
    /\ op_call # NoOpCall
    /\ TileSized(op_call.mask)

C14_WitnessPipeline ==
    /\ pipeline = "vertical"
    /\ Len(calls) = 2
    /\ calls[2].direction = "up"
    /\ TileSized(calls[2].canvas)

\* the directions of the two provider calls of a pipeline, in order
CallOrder(which) == IF which = "landscape" THEN <<"right", "left">> ELSE <<"down", "up">>

\* C18: within one _outpaint_landscape / _outpaint_vertical invocation the
\* provider is called at most twice, in the order right then left (down
\* then up), each direction at most once; a failed call is never retried
\* and once a call has failed no further provider call is made.  The
\* single-direction helpers do not catch the provider's error: when the
\* provider raises inside _extend_once the error is the helper's outcome.
C18_CallsOrderedNoRetry ==
    /\ [][ (calls' # calls /\ calls' # <<>>) =>
              /\ errors = <<>>
              /\ Len(calls') = Len(calls) + 1
              /\ Len(calls') <= 2
              /\ SubSeq(calls', 1, Len(calls)) = calls
              /\ calls'[Len(calls')].direction = CallOrder(pipeline')[Len(calls')] ]_vars
    /\ [][ (errors' # errors /\ errors' # <<>>) => (pc' = "done" /\ calls' = calls) ]_vars
    /\ [][ (op = "_extend_once" /\ op_result.status = "pending"
              /\ op_result' # op_result /\ op_result'.new_strip_full = NoImage) =>
                 /\ op_result'.status = "raised"
                 /\ op_result'.error = "ProviderError"
                 /\ op_result'.image = NoImage ]_vars

\* the first call of a landscape run failed: one call, the run is over
C18_Witness ==
    /\ pipeline = "landscape"
    /\ pc = "done"
    /\ errors = <<"ProviderError">>
    /\ Len(calls) = 1
    /\ calls[1].direction = "right"

\* ------------------------------------------------------------------------
\* The campaign workflow: generate_campaign_assets, _call_dalle,
\* _save_generated_asset and the rows of GenerationRun / GeneratedAsset
\* ------------------------------------------------------------------------

\* estimated_cost_usd = len(assets) * 0.040, kept in thousandths of a dollar
COST_PER_ASSET == 40

\* Brief rows the calls are made on: products (their names, in order), the
\* language codes of get_all_languages() and the uploaded reference image
\* ("none", a 1024x1024 "square", or an image of any "other" size).
Briefs ==
    << [products |-> <<"a">>, languages |-> {"en", "es"}, reference_image |-> "none"],
       [products |-> <<"a", "a">>, languages |-> {"en"}, reference_image |-> "square"] >>

BriefIds == DOMAIN Briefs

\* list(set(...)): the languages in any order
LanguageOrders(codes) ==
    { order \in [1..Cardinality(codes) -> codes] :
         \A i, j \in DOMAIN order : order[i] = order[j] => i = j }

\* for language in get_all_languages(): for product in products
WorkItems(order, products) ==
    [ k \in 1..(Len(order) * Len(products)) |->
        [language |-> order[((k - 1) \div Len(products)) + 1],
         product_name |-> products[((k - 1) % Len(products)) + 1]] ]

\* variant: the dev-mode switch is not consulted
call_dalle_live(dev) ==
    { [status |-> "returned", source |-> "provider", error |-> "none",
       endpoints |-> {"images.generate"}],
      [status |-> "raised", source |-> "none", error |-> "DALL-E generation failed",
       endpoints |-> {"images.generate"}] }

\* _call_dalle: the mock image in dev mode; otherwise client.images.generate,
\* whose failure (or a failed download) is re-raised as an Exception.
call_dalle(dev) ==
    IF dev
    THEN { [status |-> "returned", source |-> "mock", error |-> "none",
            endpoints |-> {}] }
    ELSE { [status |-> "returned", source |-> "provider", error |-> "none",
            endpoints |-> {"images.generate"}],
           [status |-> "raised", source |-> "none", error |-> "DALL-E generation failed",
            endpoints |-> {"images.generate"}] }

\* variant: the pipelines always take the AI path
outpaint_endpoints_live(dev, base) ==
    IF base = "square" THEN {"images.edit"} ELSE {}

\* The provider endpoints one _outpaint_landscape / _outpaint_vertical call
\* invokes: none in dev mode and none for a base that fails the size check,
\* images.edit otherwise (the call always returns an image, see ProviderRaises).
outpaint_endpoints(dev, base) ==
    IF dev THEN {}
    ELSE IF base = "square" THEN {"images.edit"} ELSE {}

AssetKey(row) ==
    << row.generation_run, row.product_name, row.aspect_ratio, row.language >>

AssetRow(run, product_name, aspect_ratio, language, prompt, generation_time) ==
    [generation_run |-> run, product_name |-> product_name,
     aspect_ratio |-> aspect_ratio, language |-> language,
     ai_prompt |-> prompt, generation_time_seconds |-> generation_time]

\* ids of the rows holding the key (unique_together keeps them to one at most)
Existing(table, row) ==
    { i \in DOMAIN table : AssetKey(table[i]) = AssetKey(row) }

\* GeneratedAsset.objects.create: the unique constraint rejects a second row
\* of the same (generation_run, product_name, aspect_ratio, language)
create_asset(table, row) ==
    IF Existing(table, row) # {}
    THEN [status |-> "raised", error |-> "IntegrityError", assets |-> table, id |-> 0]
    ELSE [status |-> "returned", error |-> "none", assets |-> Append(table, row),
          id |-> Len(table) + 1]

\* variant: a plain create that keeps the earlier row as it is
save_generated_asset_insert(table, row) ==
    [assets |-> Append(table, row), id |-> Len(table) + 1, created |-> TRUE]

\* variant: get_or_create without the update of an existing row
save_generated_asset_get(table, row) ==
    IF Existing(table, row) = {}
    THEN [assets |-> Append(table, row), id |-> Len(table) + 1, created |-> TRUE]
    ELSE [assets |-> table, id |-> CHOOSE i \in Existing(table, row) : TRUE,
          created |-> FALSE]

\* _save_generated_asset: get_or_create on the key; an existing row gets the
\* call's ai_prompt and generation_time_seconds and is saved.
save_generated_asset(table, row) ==
    IF Existing(table, row) = {}
    THEN [assets |-> Append(table, row), id |-> Len(table) + 1, created |-> TRUE]
    ELSE LET i == CHOOSE i \in Existing(table, row) : TRUE
         IN  [assets |-> [table EXCEPT ![i].ai_prompt = row.ai_prompt,
                                       ![i].generation_time_seconds =
                                            row.generation_time_seconds],
              id |-> i, created |-> FALSE]

\* The outcome of one pass of the loop body over (language, product):
\* the asset table, the assets appended to the list, the time added to
\* total_time, the endpoints invoked and the exception, if one was raised.
ItemOutcome(table, ids, time, endpoints, exc) ==
    [assets |-> table, ids |-> ids, time |-> time, endpoints |-> endpoints, exc |-> exc]

\* _create_reference_image_assets, one (language, product): both extensions,
\* then one objects.create per aspect ratio, in the order 1:1, 16:9, 9:16
create_reference_image_assets(table, run, item, dev, reference_image) ==
    LET called == outpaint_endpoints(dev, reference_image)
        Row(ratio) == AssetRow(run, item.product_name, ratio, item.language,
                               "Reference image", 0)
        s == create_asset(table, Row("1:1"))
        l == create_asset(s.assets, Row("16:9"))
        v == create_asset(l.assets, Row("9:16"))
    IN  IF s.status = "raised" THEN { ItemOutcome(s.assets, <<>>, 0, called, s.error) }
        ELSE IF l.status = "raised"
             THEN { ItemOutcome(l.assets, <<s.id>>, 0, called, l.error) }
        ELSE IF v.status = "raised"
             THEN { ItemOutcome(v.assets, <<s.id, l.id>>, 0, called, v.error) }
        ELSE { ItemOutcome(v.assets, <<s.id, l.id, v.id>>, 0, called, "none") }

\* _generate_assets_with_outpainting: the base square from _call_dalle, saved
\* as 1:1, then the landscape and the vertical extension of it, each saved
generate_assets_with_outpainting(table, run, item, dev) ==
    { LET called == base.endpoints \cup outpaint_endpoints(dev, "square")
          s == save_generated_asset(table,
                  AssetRow(run, item.product_name, "1:1", item.language, "base_prompt", 1))
          l == save_generated_asset(s.assets,
                  AssetRow(run, item.product_name, "16:9", item.language,
                           "landscape_prompt", 1))
          v == save_generated_asset(l.assets,
                  AssetRow(run, item.product_name, "9:16", item.language,
                           "vertical_prompt", 1))
      IN  IF base.status = "raised"
          THEN ItemOutcome(table, <<>>, 0, base.endpoints, base.error)
          ELSE ItemOutcome(v.assets, <<s.id, l.id, v.id>>, 3, called, "none")
      : base \in call_dalle(dev) }

\* generate_square_image, generate_story_image, generate_landscape_image:
\* three _generate_and_save calls, each its own _call_dalle; `good` of them
\* succeed before one raises
generate_three_images(table, run, item, dev) ==
    LET Row(ratio) == AssetRow(run, item.product_name, ratio, item.language,
                               "aspect_prompt", 1)
        s == save_generated_asset(table, Row("1:1"))
        v == save_generated_asset(s.assets, Row("9:16"))
        l == save_generated_asset(v.assets, Row("16:9"))
        raised == { c \in call_dalle(dev) : c.status = "raised" }
        returned == { c \in call_dalle(dev) : c.status = "returned" }
    IN  { ItemOutcome(table, <<>>, 0, c.endpoints, c.error) : c \in raised }
        \cup { ItemOutcome(s.assets, <<s.id>>, 1, c.endpoints, c.error) : c \in raised }
        \cup { ItemOutcome(v.assets, <<s.id, v.id>>, 2, c.endpoints, c.error) : c \in raised }
        \cup { ItemOutcome(l.assets, <<s.id, v.id, l.id>>, 3, c.endpoints, "none")
                  : c \in returned }

MaxOf(S) == CHOOSE m \in S : \A n \in S : n <= m

\* the fields of a GenerationRun row as objects.create leaves them
NewRun(brief, run_index) ==
    [brief |-> brief, run_index |-> run_index, success |-> FALSE,
     completed_at |-> "null", error_message |-> "", assets_generated |-> 0,
     total_generation_time |-> 0, estimated_cost_usd |-> 0]

\* no call of the workflow, of _call_dalle or of a pipeline is in progress
Quiet ==
    /\ \A p \in Callers : procs[p].pc = "idle"
    /\ dalle_call = NoDalle
    /\ pc = "idle"

WorkflowInit ==
    /\ dev_mode \in BOOLEAN
    /\ use_outpaint_method \in BOOLEAN
    /\ pc = "idle"
    /\ pipeline = "none"
    /\ square_image_data = NoImage
    /\ original_image = NoImage
    /\ calls = <<>>
    /\ tiles = <<>>
    /\ strips = <<>>
    /\ errors = <<>>
    /\ pastes = <<>>
    /\ result = NoResult
    /\ blend_args = NoBlendArgs
    /\ blend_result = NoBlend
    /\ op = "none"
    /\ op_args = NoOpArgs
    /\ op_call = NoOpCall
    /\ op_result = NoOpResult
    /\ WorkflowIdle

\* A direct call of _call_dalle
CallDalle ==
    /\ Quiet
    /\ \E outcome \in call_dalle(dev_mode) :
          /\ dalle_call' = [status |-> outcome.status, source |-> outcome.source,
                            error |-> outcome.error]
          /\ provider_log' = provider_log \cup outcome.endpoints
    /\ UNCHANGED << pvars, bvars, hvars, use_outpaint_method, runs, assets, procs,
                    started, save_call, available_providers, translate_call >>

\* The caller takes the image (or the exception) of _call_dalle
DalleReturn ==
    /\ dalle_call # NoDalle
    /\ dalle_call' = NoDalle
    /\ UNCHANGED << pvars, bvars, hvars, use_outpaint_method, runs, assets, procs,
                    started, provider_log, save_call, available_providers,
                    translate_call >>

\* A caller (the first free one) enters generate_campaign_assets(brief):
\* latest_run = ...order_by("-run_index").first(); next_run_index
ReadLatestRun(p, brief) ==
    /\ procs[p].pc = "idle"
    /\ \A q \in Callers : q < p => procs[q].pc # "idle"
    /\ dalle_call = NoDalle
    /\ pc = "idle"
    /\ started < MaxStarts
    /\ started' = started + 1
    /\ LET indices == { runs[r].run_index : r \in { r \in DOMAIN runs :
                                                     runs[r].brief = brief } }
       IN  procs' = [procs EXCEPT ![p] =
                       [NoProc EXCEPT !.pc = "create",
                                      !.brief = brief,
                                      !.next_run_index =
                                          IF indices = {} THEN 1 ELSE MaxOf(indices) + 1]]
    /\ UNCHANGED << pvars, bvars, hvars, use_outpaint_method, runs, assets,
                    provider_log, save_call, dalle_call, available_providers,
                    translate_call >>

\* GenerationRun.objects.create(brief, run_index), before the try block:
\* unique_together (brief, run_index) rejects an index taken meanwhile and
\* the IntegrityError leaves the function.
CreateRun(p) ==
    /\ procs[p].pc = "create"
    /\ IF \E r \in DOMAIN runs : /\ runs[r].brief = procs[p].brief
                                 /\ runs[r].run_index = procs[p].next_run_index
       THEN /\ procs' = [procs EXCEPT ![p].pc = "raised",
                                      ![p].error = "IntegrityError"]
            /\ UNCHANGED runs
       ELSE /\ runs' = Append(runs, NewRun(procs[p].brief, procs[p].next_run_index))
            /\ \E order \in LanguageOrders(Briefs[procs[p].brief].languages) :
                  procs' = [procs EXCEPT
                     ![p].pc = "generate",
                     ![p].run = Len(runs) + 1,
                     ![p].created = << Len(runs) + 1 >>,
                     ![p].work = WorkItems(order, Briefs[procs[p].brief].products)]
    /\ UNCHANGED << pvars, bvars, hvars, use_outpaint_method, assets, started,
                    provider_log, save_call, dalle_call, available_providers,
                    translate_call >>

\* what the body of the try block does for one (language, product)
ItemOutcomes(p) ==
    LET item == Head(procs[p].work)
        brief == Briefs[procs[p].brief]
    IN  IF brief.reference_image # "none"
        THEN create_reference_image_assets(assets, procs[p].run, item, dev_mode,
                                           brief.reference_image)
        ELSE IF use_outpaint_method
             THEN generate_assets_with_outpainting(assets, procs[p].run, item, dev_mode)
             ELSE generate_three_images(assets, procs[p].run, item, dev_mode)

\* One pass of the loops of the try block: the assets of one (language,
\* product) are generated and saved, or an exception is raised.
GenerateItem(p) ==
    /\ procs[p].pc = "generate"
    /\ procs[p].work # <<>>
    /\ \E outcome \in ItemOutcomes(p) :
          /\ assets' = outcome.assets
          /\ provider_log' = provider_log \cup outcome.endpoints
          /\ procs' = [procs EXCEPT
                ![p].assets = procs[p].assets \o outcome.ids,
                ![p].total_time = procs[p].total_time + outcome.time,
                ![p].work = IF outcome.exc = "none" THEN Tail(procs[p].work)
                            ELSE procs[p].work,
                ![p].exc = outcome.exc,
                ![p].pc = IF outcome.exc = "none" THEN "generate" ELSE "except"]
    /\ UNCHANGED << pvars, bvars, hvars, use_outpaint_method, runs, started,
                    save_call, dalle_call, available_providers, translate_call >>

\* variant: the run is saved as successful without its completion time
MarkSuccessful_open(p) ==
    /\ procs[p].pc = "generate"
    /\ procs[p].work = <<>>
    /\ runs' = [runs EXCEPT ![procs[p].run] =
                   [@ EXCEPT !.assets_generated = Len(procs[p].assets),
                             !.success = TRUE]]
    /\ procs' = [procs EXCEPT ![p].pc = "returned"]
    /\ UNCHANGED << pvars, bvars, hvars, use_outpaint_method, assets, started,
                    provider_log, save_call, dalle_call, available_providers,
                    translate_call >>

\* "Mark run as successful": the counters, success, completed_at, save(),
\* return assets
MarkSuccessful(p) ==
    /\ procs[p].pc = "generate"
    /\ procs[p].work = <<>>
    /\ runs' = [runs EXCEPT ![procs[p].run] =
                   [@ EXCEPT !.assets_generated = Len(procs[p].assets),
                             !.total_generation_time = procs[p].total_time,
                             !.success = TRUE,
                             !.completed_at = "set",
                             !.estimated_cost_usd = Len(procs[p].assets) * COST_PER_ASSET]]
    /\ procs' = [procs EXCEPT ![p].pc = "returned"]
    /\ UNCHANGED << pvars, bvars, hvars, use_outpaint_method, assets, started,
                    provider_log, save_call, dalle_call, available_providers,
                    translate_call >>

\* variant: the handler re-raises without recording the failure
MarkFailed_silent(p) ==
    /\ procs[p].pc = "except"
    /\ procs' = [procs EXCEPT ![p].pc = "raised", ![p].error = procs[p].exc]
    /\ UNCHANGED << pvars, bvars, hvars, use_outpaint_method, runs, assets, started,
                    provider_log, save_call, dalle_call, available_providers,
                    translate_call >>

\* "Mark run as failed": error_message = str(e), completed_at, save(), raise
MarkFailed(p) ==
    /\ procs[p].pc = "except"
    /\ runs' = [runs EXCEPT ![procs[p].run] =
                   [@ EXCEPT !.error_message = procs[p].exc,
                             !.completed_at = "set"]]
    /\ procs' = [procs EXCEPT ![p].pc = "raised", ![p].error = procs[p].exc]
    /\ UNCHANGED << pvars, bvars, hvars, use_outpaint_method, assets, started,
                    provider_log, save_call, dalle_call, available_providers,
                    translate_call >>

\* The caller takes the assets (or the exception)
Collect(p) ==
    /\ procs[p].pc \in {"returned", "raised"}
    /\ procs' = [procs EXCEPT ![p] = NoProc]
    /\ UNCHANGED << pvars, bvars, hvars, use_outpaint_method, runs, assets, started,
                    provider_log, save_call, dalle_call, available_providers,
                    translate_call >>

\* the pipelines called directly, while no workflow call has been made
PipelineCall ==
    /\ started = 0
    /\ dalle_call = NoDalle
    /\ Next

WorkflowNext ==
    \/ PipelineCall
    \/ CallDalle
    \/ DalleReturn
    \/ \E p \in Callers, brief \in BriefIds : ReadLatestRun(p, brief)
    \/ \E p \in Callers : CreateRun(p)
    \/ \E p \in Callers : GenerateItem(p)
    \/ \E p \in Callers : MarkSuccessful(p)
    \/ \E p \in Callers : MarkFailed(p)
    \/ \E p \in Callers : Collect(p)

SpecWorkflow == WorkflowInit /\ [][WorkflowNext]_vars

\* ------------------------------------------------------------------------
\* Properties of the workflow (specification SpecWorkflow)
\* ------------------------------------------------------------------------

\* the image-provider endpoints invoked so far, by the workflow, by
\* _call_dalle and by the pipelines
Invoked ==
    provider_log \cup (IF calls # <<>> THEN {"images.edit"} ELSE {})

\* C21: with dev mode enabled no sequence of _call_dalle, _outpaint_landscape,
\* _outpaint_vertical and generate_campaign_assets calls invokes the image
\* provider (neither images.generate nor images.edit): a base image comes
\* from the mock generator, an extension from the fallback extender.
C21_DevModeNeverCallsProvider ==
    dev_mode =>
        /\ Invoked = {}
        /\ dalle_call # NoDalle =>
              (dalle_call.status = "returned" /\ dalle_call.source = "mock")
        /\ pc = "done" =>
              /\ result.branch = "dev_mode"
              /\ result.image = Fallback(pipeline, square_image_data)

\* a dev-mode workflow call has returned the three assets of a product
C21_Witness ==
    /\ dev_mode
    /\ \E p \in Callers : /\ procs[p].pc = "returned"
                          /\ Len(procs[p].assets) >= 3
                          /\ Briefs[procs[p].brief].reference_image = "none"

\* C22: when generate_campaign_assets returns normally, exactly one new
\* GenerationRun has been created by the call, for its brief, and that run
\* has success = True, completed_at set and assets_generated equal to the
\* number of assets returned.
C22_ReturnedRunSuccessful ==
    \A p \in Callers :
        procs[p].pc = "returned" =>
            /\ Len(procs[p].created) = 1
            /\ procs[p].created[1] \in DOMAIN runs
            /\ LET run == runs[procs[p].created[1]]
               IN  /\ run.brief = procs[p].brief
                   /\ run.success = TRUE
                   /\ run.completed_at = "set"
                   /\ run.assets_generated = Len(procs[p].assets)
                   /\ run.error_message = ""

\* a call returned the six assets of one product in two languages while
\* another run of the brief exists
C22_Witness ==
    \E p \in Callers :
        /\ procs[p].pc = "returned"
        /\ Len(procs[p].assets) = 6
        /\ Len(runs) = 2
        /\ runs[procs[p].run].run_index = 2
        /\ runs[procs[p].run].assets_generated = 6

\* C27: when generate_campaign_assets fails with an exception after its
\* GenerationRun was created, the run is left with success = False,
\* error_message = the exception's text and completed_at set, and the same
\* exception reaches the caller; no run is without completed_at once the
\* call that created it has ended.
C27_FailedRunRecorded ==
    /\ \A p \in Callers :
          (procs[p].pc = "raised" /\ procs[p].created # <<>>) =>
              LET run == runs[procs[p].created[1]]
              IN  /\ run.success = FALSE
                  /\ run.error_message = procs[p].exc
                  /\ run.completed_at = "set"
                  /\ procs[p].error = procs[p].exc
                  /\ procs[p].exc # "none"
    /\ \A r \in DOMAIN runs :
          runs[r].completed_at = "null" =>
              \E p \in Callers : /\ procs[p].run = r
                                 /\ procs[p].pc \in {"generate", "except"}

\* a provider failure in non-dev mode ended a call whose run exists
C27_Witness ==
    \E p \in Callers :
        /\ procs[p].pc = "raised"
        /\ procs[p].created # <<>>
        /\ procs[p].error = "DALL-E generation failed"
        /\ runs[procs[p].run].error_message = "DALL-E generation failed"

\* the unique constraint of GeneratedAsset ended a reference-image call
C27_WitnessIntegrity ==
    \E p \in Callers :
        /\ procs[p].pc = "raised"
        /\ procs[p].created # <<>>
        /\ procs[p].error = "IntegrityError"
        /\ Len(procs[p].assets) = 3

RunIndices(brief) ==
    { runs[r].run_index : r \in { r \in DOMAIN runs : runs[r].brief = brief } }

\* C28: for any interleaving of generate_campaign_assets calls on the same
\* brief, every call creates its own GenerationRun, no two runs of a brief
\* share a run_index and the indices of a brief are 1..n without a gap.
C28_EveryCallCreatesRun ==
    /\ \A p \in Callers :
          procs[p].pc \in {"generate", "except", "returned", "raised"} =>
              Len(procs[p].created) = 1
    /\ \A r1, r2 \in DOMAIN runs :
          (runs[r1].brief = runs[r2].brief /\ runs[r1].run_index = runs[r2].run_index)
              => r1 = r2
    /\ \A brief \in BriefIds :
          RunIndices(brief) = 1..Cardinality(RunIndices(brief))

\* ------------------------------------------------------------------------
\* _save_generated_asset called directly (specification SpecAssets)
\* ------------------------------------------------------------------------

MaxAssets == 3

\* the arguments of the calls: two runs, one product in two aspect ratios,
\* and two (prompt, generation_time) pairs
SaveRuns == {1, 2}

SaveRatios == {"1:1", "16:9"}

SavePrompts == { <<"p1", 1>>, <<"p2", 2>> }

\* two runs of one brief that failed at their first provider call
FailedRun(run_index) ==
    [NewRun(1, run_index) EXCEPT !.error_message = "DALL-E generation failed",
                                 !.completed_at = "set"]

AssetsInit ==
    /\ dev_mode = FALSE
    /\ use_outpaint_method = TRUE
    /\ pc = "idle"
    /\ pipeline = "none"
    /\ square_image_data = NoImage
    /\ original_image = NoImage
    /\ calls = <<>>
    /\ tiles = <<>>
    /\ strips = <<>>
    /\ errors = <<>>
    /\ pastes = <<>>
    /\ result = NoResult
    /\ blend_args = NoBlendArgs
    /\ blend_result = NoBlend
    /\ op = "none"
    /\ op_args = NoOpArgs
    /\ op_call = NoOpCall
    /\ op_result = NoOpResult
    /\ runs = << FailedRun(1), FailedRun(2) >>
    /\ assets = <<>>
    /\ procs = [p \in Callers |-> NoProc]
    /\ started = 0
    /\ provider_log = {"images.generate"}
    /\ save_call = NoSave
    /\ dalle_call = NoDalle
    /\ available_providers = <<"MockTranslationProvider">>
    /\ translate_call = NoTranslate

\* One call of _save_generated_asset, from its lookup to its return
SaveCall(run, aspect_ratio, prompt) ==
    LET row == AssetRow(run, "a", aspect_ratio, "en", prompt[1], prompt[2])
        saved == save_generated_asset(assets, row)
    IN  /\ run \in DOMAIN runs
        /\ Len(assets) < MaxAssets \/ Existing(assets, row) # {}
        /\ assets' = saved.assets
        /\ save_call' = [status |-> "returned", run |-> run, product_name |-> "a",
                         aspect_ratio |-> aspect_ratio, language |-> "en",
                         prompt |-> prompt[1], generation_time |-> prompt[2],
                         existing |-> IF Existing(assets, row) = {} THEN 0
                                      ELSE CHOOSE i \in Existing(assets, row) : TRUE,
                         rows_before |-> Len(assets),
                         id |-> saved.id]
        /\ UNCHANGED << pvars, bvars, hvars, use_outpaint_method, runs, procs, started,
                        provider_log, dalle_call, available_providers, translate_call >>

AssetsNext ==
    \E run \in SaveRuns, aspect_ratio \in SaveRatios, prompt \in SavePrompts :
        SaveCall(run, aspect_ratio, prompt)

SpecAssets == AssetsInit /\ [][AssetsNext]_vars

\* C23: after any sequence of _save_generated_asset calls there is at most
\* one GeneratedAsset per (generation_run, product_name, aspect_ratio,
\* language); a call whose key already exists returns the existing asset
\* (same id) with ai_prompt and generation_time_seconds replaced by the
\* call's values and creates no new row.
C23_OneAssetPerKey ==
    /\ \A i, j \in DOMAIN assets : AssetKey(assets[i]) = AssetKey(assets[j]) => i = j
    /\ save_call.status = "returned" =>
          /\ save_call.id \in DOMAIN assets
          /\ assets[save_call.id] =
                AssetRow(save_call.run, save_call.product_name, save_call.aspect_ratio,
                         save_call.language, save_call.prompt, save_call.generation_time)
          /\ save_call.existing # 0 =>
                /\ save_call.id = save_call.existing
                /\ Len(assets) = save_call.rows_before
          /\ save_call.existing = 0 =>
                /\ save_call.id = save_call.rows_before + 1
                /\ Len(assets) = save_call.rows_before + 1

\* a call on an existing key returned the first row, which now carries the
\* second prompt, while another row exists
C23_Witness ==
    /\ save_call.status = "returned"
    /\ save_call.existing = 1
    /\ save_call.prompt = "p2"
    /\ Len(assets) = 2
    /\ assets[1].ai_prompt = "p2"
    /\ assets[1].generation_time_seconds = 2

\* ------------------------------------------------------------------------
\* TranslationService.translate_text (specification SpecTranslation)
\* ------------------------------------------------------------------------

\* A translated text: the marker a provider put in front of (or made of)
\* the text; "" for the text handed back as it is.
Text(marker, text) == [marker |-> marker, text |-> text]

Upper(code) == CASE code = "es" -> "ES" [] code = "fr" -> "FR" [] OTHER -> code

Attempt(provider, status, translated, error) ==
    [provider |-> provider, status |-> status, result |-> translated, error |-> error]

\* provider.translate(text, target_language, source_language) of the three
\* provider classes: the outcomes a call can have
provider_translate(provider, text, target_language, source_language) ==
    CASE provider = "MockTranslationProvider" ->
            { Attempt(provider, "returned",
                      IF target_language = source_language THEN Text("", text)
                      ELSE Text("[" \o Upper(target_language) \o "] ", text),
                      "none") }
      [] provider = "OpenAITranslationProvider" ->
            IF target_language = source_language
            THEN { Attempt(provider, "returned", Text("", text), "none") }
            ELSE { Attempt(provider, "returned", Text("gpt-3.5-turbo:" \o target_language, text),
                           "none"),
                   Attempt(provider, "raised", NoTranslate.result,
                           "RuntimeError: Translation failed") }
      [] OTHER ->
            { Attempt(provider, "raised", NoTranslate.result, "NotImplementedError") }

\* self.available_providers: the lists __init__ builds with and without an
\* API key, and lists installed on the service by its user
ProviderLists ==
    { << "OpenAITranslationProvider", "MockTranslationProvider" >>,
      << "MockTranslationProvider" >>,
      << "OpenAITranslationProvider" >>,
      << "GoogleTranslationProvider", "OpenAITranslationProvider" >>,
      << "GoogleTranslationProvider", "OpenAITranslationProvider",
         "MockTranslationProvider" >>,
      << >> }

Texts == {"Hello", "Sale", "New"}

TargetLanguages == {"en", "es", "fr"}

TranslationInit ==
    /\ dev_mode = FALSE
    /\ use_outpaint_method = TRUE
    /\ pc = "idle"
    /\ pipeline = "none"
    /\ square_image_data = NoImage
    /\ original_image = NoImage
    /\ calls = <<>>
    /\ tiles = <<>>
    /\ strips = <<>>
    /\ errors = <<>>
    /\ pastes = <<>>
    /\ result = NoResult
    /\ blend_args = NoBlendArgs
    /\ blend_result = NoBlend
    /\ op = "none"
    /\ op_args = NoOpArgs
    /\ op_call = NoOpCall
    /\ op_result = NoOpResult
    /\ runs = <<>>
    /\ assets = <<>>
    /\ procs = [p \in Callers |-> NoProc]
    /\ started = 0
    /\ provider_log = {}
    /\ save_call = NoSave
    /\ dalle_call = NoDalle
    /\ available_providers \in ProviderLists
    /\ translate_call = NoTranslate

\* Entry of translate_text: the empty-list check, then the same-language
\* shortcut, then the loop is entered
TranslateCall(text, target_language, source_language) ==
    /\ translate_call.pc = "idle"
    /\ translate_call' =
          LET call == [NoTranslate EXCEPT !.text = text,
                                          !.target_language = target_language,
                                          !.source_language = source_language]
          IN  IF available_providers = <<>>
              THEN [call EXCEPT !.pc = "raised",
                                !.error = "RuntimeError: No translation providers available"]
              ELSE IF target_language = source_language
                   THEN [call EXCEPT !.pc = "returned", !.result = Text("", text)]
                   ELSE [call EXCEPT !.pc = "loop", !.index = 1]
    /\ UNCHANGED << pvars, bvars, hvars, use_outpaint_method, runs, assets, procs,
                    started, provider_log, save_call, dalle_call, available_providers >>

\* variant: the first failure is raised to the caller
TryProvider_no_fallback ==
    /\ translate_call.pc = "loop"
    /\ translate_call.index <= Len(available_providers)
    /\ \E attempt \in provider_translate(available_providers[translate_call.index],
                                         translate_call.text,
                                         translate_call.target_language,
                                         translate_call.source_language) :
          translate_call' =
             IF attempt.status = "returned"
             THEN [translate_call EXCEPT !.pc = "returned",
                                         !.tried = Append(@, attempt),
                                         !.result = attempt.result]
             ELSE [translate_call EXCEPT !.pc = "raised",
                                         !.tried = Append(@, attempt),
                                         !.error = attempt.error]
    /\ UNCHANGED << pvars, bvars, hvars, use_outpaint_method, runs, assets, procs,
                    started, provider_log, save_call, dalle_call, available_providers >>

\* variant: the loop goes on after a success, the last result is returned
TryProvider_last_wins ==
    /\ translate_call.pc = "loop"
    /\ translate_call.index <= Len(available_providers)
    /\ \E attempt \in provider_translate(available_providers[translate_call.index],
                                         translate_call.text,
                                         translate_call.target_language,
                                         translate_call.source_language) :
          translate_call' =
             IF attempt.status = "returned"
             THEN [translate_call EXCEPT
                      !.pc = IF translate_call.index = Len(available_providers)
                             THEN "returned" ELSE "loop",
                      !.index = @ + 1,
                      !.tried = Append(@, attempt),
                      !.result = attempt.result]
             ELSE [translate_call EXCEPT !.index = @ + 1,
                                         !.tried = Append(@, attempt),
                                         !.last_error = attempt.error]
    /\ UNCHANGED << pvars, bvars, hvars, use_outpaint_method, runs, assets, procs,
                    started, provider_log, save_call, dalle_call, available_providers >>

\* One pass of `for provider in self.available_providers`: the result is
\* returned, or the exception is kept in last_error and the loop continues
TryProvider ==
    /\ translate_call.pc = "loop"
    /\ translate_call.index <= Len(available_providers)
    /\ \E attempt \in provider_translate(available_providers[translate_call.index],
                                         translate_call.text,
                                         translate_call.target_language,
                                         translate_call.source_language) :
          translate_call' =
             IF attempt.status = "returned"
             THEN [translate_call EXCEPT !.pc = "returned",
                                         !.tried = Append(@, attempt),
                                         !.result = attempt.result]
             ELSE [translate_call EXCEPT !.index = @ + 1,
                                         !.tried = Append(@, attempt),
                                         !.last_error = attempt.error]
    /\ UNCHANGED << pvars, bvars, hvars, use_outpaint_method, runs, assets, procs,
                    started, provider_log, save_call, dalle_call, available_providers >>

\* The loop ended without a return: RuntimeError with the last error
AllProvidersFailed ==
    /\ translate_call.pc = "loop"
    /\ translate_call.index > Len(available_providers)
    /\ translate_call' =
          [translate_call EXCEPT !.pc = "raised",
                                 !.error = "RuntimeError: All translation providers failed"]
    /\ UNCHANGED << pvars, bvars, hvars, use_outpaint_method, runs, assets, procs,
                    started, provider_log, save_call, dalle_call, available_providers >>

\* The caller takes the text (or the exception)
TranslateReturn ==
    /\ translate_call.pc \in {"returned", "raised"}
    /\ translate_call' = NoTranslate
    /\ UNCHANGED << pvars, bvars, hvars, use_outpaint_method, runs, assets, procs,
                    started, provider_log, save_call, dalle_call, available_providers >>

TranslationNext ==
    \/ \E text \in Texts, target_language \in TargetLanguages :
          TranslateCall(text, target_language, "en")
    \/ TryProvider
    \/ AllProvidersFailed
    \/ TranslateReturn

SpecTranslation == TranslationInit /\ [][TranslationNext]_vars

\* the providers tried so far, in the order they were tried
TriedProviders == [ i \in DOMAIN translate_call.tried |-> translate_call.tried[i].provider ]

\* C24: translate_text, for a target language different from the source,
\* tries the available providers in list order and returns the result of the
\* first that does not fail; it raises only when every available provider
\* has failed; a provider is never tried after an earlier one succeeded.
C24_FirstWorkingProvider ==
    translate_call.target_language # translate_call.source_language =>
        LET tried == translate_call.tried
            n == Len(tried)
        IN  /\ n <= Len(available_providers)
            /\ TriedProviders = SubSeq(available_providers, 1, n)
            /\ \A i \in 1..(n - 1) : tried[i].status = "raised"
            /\ translate_call.pc = "loop" =>
                  \A i \in 1..n : tried[i].status = "raised"
            /\ translate_call.pc = "returned" =>
                  /\ n >= 1
                  /\ tried[n].status = "returned"
                  /\ translate_call.result = tried[n].result
            /\ translate_call.pc = "raised" =>
                  /\ n = Len(available_providers)
                  /\ \A i \in 1..n : tried[i].status = "raised"

\* the first two providers failed and the third one's text was returned
C24_Witness ==
    /\ translate_call.pc = "returned"
    /\ translate_call.target_language = "es"
    /\ Len(translate_call.tried) = 3
    /\ translate_call.result = Text("[ES] ", translate_call.text)

\* every provider of a two-element list failed and the call raised
C24_WitnessAllFailed ==
    /\ translate_call.pc = "raised"
    /\ Len(translate_call.tried) = 2
    /\ translate_call.error = "RuntimeError: All translation providers failed"

\* ------------------------------------------------------------------------
\* Further properties of the pipelines (specification Spec)
\* ------------------------------------------------------------------------

\* the blurred quarter-size strip of the base's leading / trailing edge, as
\* the fallback extenders cut it
EdgeStrip(square_image, leading) ==
    LET size == square_image.w
        from == IF leading THEN 0 ELSE (3 * size) \div 4
        to == IF leading THEN size \div 4 ELSE size
    IN  IF pipeline = "landscape"
        THEN GaussianBlur(Crop(square_image, from, 0, to, size))
        ELSE GaussianBlur(Crop(square_image, 0, from, size, to))

\* the pixels of a strip as they arrive on the RGB canvas
StripContent(strip) ==
    { ConvertPixel(strip.line[k], "RGB") : k \in 1..Len(strip.line) }

FallbackReturned ==
    /\ Finished /\ ValidBase
    /\ result.status = "returned"
    /\ result.branch \in {"dev_mode", "except"}

Region(img, from, len) == [ i \in 1..len |-> img.line[from + i] ]

\* C25: on every AI-path run of the landscape or portrait pipeline where
\* both provider calls succeed, each synthesized strip passes through
\* _blend_strip before it is placed in the final canvas; no strip is
\* hard-pasted next to the original without blending.
C25_StripsBlendedBeforePlacement ==
    (Finished /\ result.status = "returned" /\ result.branch = "ai") =>
        /\ blend_result.status = "returned"
        /\ blend_args # NoBlendArgs
        /\ Region(result.image, TRAILING_AT, STEP) # strips[1].line
        /\ Region(result.image, 0, STEP) # strips[2].line

\* A rectangle a crop reads or a paste writes: (left, upper, right, lower)
\* in the coordinates of an image of the size w x h
Box(kind, left, upper, right, lower, w, h) ==
    [kind |-> kind, left |-> left, upper |-> upper, right |-> right, lower |-> lower,
     w |-> w, h |-> h]

\* the pastes and the crop of one _extend_direction call
extend_direction_boxes(image, direction, step_px) ==
    LET x == IF direction = "right" THEN -step_px
             ELSE IF direction = "left" THEN step_px ELSE 0
        y == IF direction = "down" THEN -step_px
             ELSE IF direction = "up" THEN step_px ELSE 0
    IN  { Box("paste", x, y, x + image.w, y + image.h, TILE, TILE),
          Box("paste", x, y, x + TILE, y + TILE, TILE, TILE),
          IF direction = "right" THEN Box("crop", TILE - step_px, 0, TILE, TILE, TILE, TILE)
          ELSE IF direction = "left" THEN Box("crop", 0, 0, step_px, TILE, TILE, TILE)
          ELSE IF direction = "down"
               THEN Box("crop", 0, TILE - step_px, TILE, TILE, TILE, TILE)
          ELSE Box("crop", 0, 0, TILE, step_px, TILE, TILE) }

\* the pastes and the crops of the two fallback extenders
fallback_boxes(which, square_image) ==
    LET original_size == square_image.w
        offset == (TARGET_LONG - original_size) \div 2
        quarter == original_size \div 4
        Along(kind, from, to, w, h) ==
            IF which = "landscape" THEN Box(kind, from, 0, to, original_size, w, h)
            ELSE Box(kind, 0, from, original_size, to, w, h)
        width == IF which = "landscape" THEN TARGET_LONG ELSE TILE
        height == IF which = "landscape" THEN TILE ELSE TARGET_LONG
    IN  { Along("paste", offset, offset + original_size, width, height),
          Along("crop", 0, quarter, square_image.w, square_image.h),
          Along("crop", (3 * original_size) \div 4, original_size,
                square_image.w, square_image.h) }
        \cup { Along("paste", at, at + quarter, width, height) : at \in 0..(offset - 1) }
        \cup { Along("paste", at, at + quarter, width, height)
                  : at \in (offset + original_size)..(TARGET_LONG - 1) }

Inside(box) ==
    /\ 0 <= box.left /\ box.left <= box.right /\ box.right <= box.w
    /\ 0 <= box.upper /\ box.upper <= box.lower /\ box.lower <= box.h

\* the rectangles addressed by the run so far
EngineBoxes ==
    UNION { extend_direction_boxes(original_image, calls[k].direction, STEP)
               : k \in DOMAIN calls }
    \cup (IF FallbackReturned THEN fallback_boxes(pipeline, square_image_data) ELSE {})

\* C26: every crop and paste performed by the engine (_extend_direction,
\* both fallback extenders for a 1024x1024 base, and the other helpers)
\* addresses a rectangle entirely inside the image it reads or writes; no
\* paste starts at a negative offset or extends past the destination's edge.
C26_RectanglesInside ==
    \A box \in EngineBoxes : Inside(box)

\* ------------------------------------------------------------------------
\* Frame effect of the helpers (specification SpecEngine)
\* ------------------------------------------------------------------------

C30_WitnessRaised ==
    /\ op = "_extend_once"
    /\ op_result.status = "raised"
    /\ op_result.error = "AssertionError"
    /\ op_result.image_after = op_args.image

====
